---- MODULE Spec2Model ----
(***************************************************************************)
(* TSVConverter (src/utils/tsv_converter.py): conversion of a list of      *)
(* records into tab-separated text by a pool of workers.                   *)
(*                                                                         *)
(* Text is a sequence of one-character strings.  A Python dict is a        *)
(* sequence of <<key, value>> pairs with distinct keys, in insertion       *)
(* order.  A Python value is a pair <<type, payload>>.                     *)
(***************************************************************************)
EXTENDS Integers, Sequences, FiniteSets, TLC

\* ------------------------------------------------------------------ bounds
MaxRecords == 3
MaxProcs == 2
MaxSpecs == 2
MaxPath == 3
MaxCells == 2
MaxResponses == 3

\* os.cpu_count() of the machine the converter is constructed on
AvailableCores == 1

\* ------------------------------------------------------------------- text
TAB == "\t"
NL == "\n"
SP == " "

K_id == <<"i", "d">>
K_name == <<"n", "a", "m", "e">>
K_score == <<"s", "c", "o", "r", "e">>
K_score_x2 == <<"s", "c", "o", "r", "e", "_", "x", "2">>
K_doubled == <<"d", "o", "u", "b", "l", "e", "d">>
K_raw == <<"r", "a", "w">>
K_x == <<"x">>
K_scale == <<"s", "c", "a", "l", "e">>
K_src == <<"s", "r", "c">>
K_source == <<"_", "s", "o", "u", "r", "c", "e">>

\* ------------------------------------------------------------ Python dict
KeySet(d) == {d[i][1] : i \in 1..Len(d)}

Keys(d) == [i \in 1..Len(d) |-> d[i][1]]

Values(d) == [i \in 1..Len(d) |-> d[i][2]]

Has(d, k) == \E i \in 1..Len(d) : d[i][1] = k

Get(d, k) == d[CHOOSE i \in 1..Len(d) : d[i][1] = k][2]

GetOr(d, k, dflt) == IF Has(d, k) THEN Get(d, k) ELSE dflt

Put(d, k, v) ==
    IF Has(d, k)
    THEN [i \in 1..Len(d) |-> IF d[i][1] = k THEN <<k, v>> ELSE d[i]]
    ELSE Append(d, <<k, v>>)

RECURSIVE Update(_, _)
Update(d, e) ==
    IF e = <<>> THEN d ELSE Update(Put(d, e[1][1], e[1][2]), Tail(e))

\* ---------------------------------------------------------- Python values
\* <<type, payload>>
VStr(s) == <<"str", s>>

VInt(n) == <<"int", n>>

VList(l) == <<"list", l>>

VDict(d) == <<"dict", d>>

VFunc(f) == <<"func", f>>

VNone == <<"None", 0>>

TypeOf(x) == x[1]

ValOf(x) == x[2]

IsDict(x) == TypeOf(x) = "dict"

Callable(x) == TypeOf(x) = "func"

Digit(n) == <<"0", "1", "2", "3", "4", "5", "6", "7", "8", "9">>[n + 1]

RECURSIVE IntToStr(_)
IntToStr(n) ==
    IF n < 0 THEN <<"-">> \o IntToStr(0 - n)
    ELSE IF n < 10 THEN <<Digit(n)>>
    ELSE IntToStr(n \div 10) \o <<Digit(n % 10)>>

\* json.dumps of a str: quoted, with the control characters escaped
RECURSIVE JsonEscape(_)
JsonEscape(s) ==
    IF s = <<>> THEN <<>>
    ELSE (CASE s[1] = TAB -> <<"\\", "t">>
            [] s[1] = NL -> <<"\\", "n">>
            [] s[1] = "\"" -> <<"\\", "\"">>
            [] s[1] = "\\" -> <<"\\", "\\">>
            [] OTHER -> <<s[1]>>) \o JsonEscape(Tail(s))

RECURSIVE JsonDumps(_)
RECURSIVE JsonItems(_)
RECURSIVE JsonPairs(_)
JsonDumps(x) ==
    CASE TypeOf(x) = "str" -> <<"\"">> \o JsonEscape(ValOf(x)) \o <<"\"">>
      [] TypeOf(x) = "int" -> IntToStr(ValOf(x))
      [] TypeOf(x) = "None" -> <<"n", "u", "l", "l">>
      [] TypeOf(x) = "list" -> <<"[">> \o JsonItems(ValOf(x)) \o <<"]">>
      [] TypeOf(x) = "dict" -> <<"{">> \o JsonPairs(ValOf(x)) \o <<"}">>

JsonItems(l) ==
    IF l = <<>> THEN <<>>
    ELSE JsonDumps(l[1])
         \o (IF Len(l) > 1 THEN <<",", SP>> ELSE <<>>)
         \o JsonItems(Tail(l))

JsonPairs(d) ==
    IF d = <<>> THEN <<>>
    ELSE <<"\"">> \o JsonEscape(d[1][1]) \o <<"\"", ":", SP>> \o JsonDumps(d[1][2])
         \o (IF Len(d) > 1 THEN <<",", SP>> ELSE <<>>)
         \o JsonPairs(Tail(d))

\* str(value) for the scalar types of the model
ToStr(x) ==
    CASE TypeOf(x) = "int" -> IntToStr(ValOf(x))
      [] TypeOf(x) = "None" -> <<"N", "o", "n", "e">>
      [] OTHER -> ValOf(x)

\* str.replace(old, " ") for a one-character old
Replace(s, old) == [i \in 1..Len(s) |-> IF s[i] = old THEN SP ELSE s[i]]

\* a warning object: its class and the values its constructor's parameters
\* (services/warnings.py) are bound to
JsonLengthWarning(length, max_length) ==
    [cls |-> "JsonLengthWarning", length |-> length, max_length |-> max_length]

ExcessiveProcessesWarning(n, cores) ==
    [cls |-> "ExcessiveProcessesWarning", num_processes |-> n,
     available_cores |-> cores]

\* an exception: its class and what its message names
\* (names: the field names; path, level: of a NestedKeyError)
Raise(cls, names, path, level) ==
    [cls |-> cls, names |-> names, path |-> path, level |-> level]

NoErr == Raise("none", {}, <<>>, VNone)

MissingFieldError(names) == Raise("MissingFieldError", names, <<>>, VNone)

NestedKeyError(path, level) == Raise("NestedKeyError", {}, path, level)

TypeError == Raise("TypeError", {}, <<>>, VNone)

ValueError == Raise("ValueError", {}, <<>>, VNone)

\* app/errors: the errors of iso_to_dict
EmptyValueError == Raise("EmptyValueError", {}, <<>>, VNone)

InvalidFormatError == Raise("InvalidFormatError", {}, <<>>, VNone)

InvalidParameterValueError == Raise("InvalidParameterValueError", {}, <<>>, VNone)

TimezoneMismatchError == Raise("TimezoneMismatchError", {}, <<>>, VNone)

IndexError == Raise("IndexError", {}, <<>>, VNone)

ElasticSearchError == Raise("ElasticSearchError", {}, <<>>, VNone)

Failed(e) == e.cls # "none"

\* repr of dataclasses.field, which the f-string of line 160 formats
FieldRepr == <<"<", "f", "u", "n", "c", "t", "i", "o", "n", " ", "f", "i", "e", "l", "d", ">">>

\* ------------------------------------------------------------- Sanitizer
SanitizeValue_tabsOnly(self, value) ==
    LET nested == TypeOf(value) \in {"dict", "list"}
        text == IF nested THEN JsonDumps(value) ELSE ToStr(value)
        w == IF nested /\ Len(text) > self.max_json_length
             THEN <<JsonLengthWarning(self.max_json_length, Len(text))>>
             ELSE <<>>
    IN  [s |-> Replace(text, TAB), w |-> w]

SanitizeValue_warnAtLimit(self, value) ==
    LET nested == TypeOf(value) \in {"dict", "list"}
        text == IF nested THEN JsonDumps(value) ELSE ToStr(value)
        w == IF nested /\ Len(text) >= self.max_json_length
             THEN <<JsonLengthWarning(self.max_json_length, Len(text))>>
             ELSE <<>>
    IN  [s |-> Replace(Replace(text, TAB), NL), w |-> w]

SanitizeValue(self, value) ==
    LET nested == TypeOf(value) \in {"dict", "list"}
        text == IF nested THEN JsonDumps(value) ELSE ToStr(value)
        w == IF nested /\ Len(text) > self.max_json_length
             THEN <<JsonLengthWarning(self.max_json_length, Len(text))>>
             ELSE <<>>
    IN  [s |-> Replace(Replace(text, TAB), NL), w |-> w]

\* ------------------------------------------------------ Nested Extractor
RECURSIVE Descend_lenient(_, _, _)
Descend_lenient(self, path, current_level) ==
    IF path = <<>> THEN [err |-> NoErr, v |-> current_level]
    ELSE IF ~IsDict(current_level) \/ ~Has(ValOf(current_level), path[1])
    THEN [err |-> NoErr, v |-> current_level]
    ELSE Descend_lenient(self, Tail(path), Get(ValOf(current_level), path[1]))

\* the loop of lines 67-73, from current_level along the rest of the path
RECURSIVE Descend(_, _, _)
Descend(self, path, current_level) ==
    IF path = <<>> THEN [err |-> NoErr, v |-> current_level]
    ELSE IF ~IsDict(current_level) \/ ~Has(ValOf(current_level), path[1])
    THEN [err |-> NestedKeyError(self.nested_key, current_level),
          v |-> current_level]
    ELSE Descend(self, Tail(path), Get(ValOf(current_level), path[1]))

ExtractNestedData(self, row) == Descend(self, self.nested_key, VDict(row))

\* ------------------------------------------- functions of computed specs
RECURSIVE Repeat(_, _)
Repeat(s, n) == IF n <= 0 THEN <<>> ELSE s \o Repeat(s, n - 1)

Mul(x, n) ==
    CASE TypeOf(x) = "int" /\ TypeOf(n) = "int" -> [err |-> NoErr, v |-> VInt(ValOf(x) * ValOf(n))]
      [] TypeOf(x) \in {"str", "list"} /\ TypeOf(n) = "int" ->
            [err |-> NoErr, v |-> <<TypeOf(x), Repeat(ValOf(x), ValOf(n))>>]
      [] OTHER -> [err |-> TypeError, v |-> x]

\* value(**function_args): a call with keyword arguments other than the
\* function's parameters is a TypeError
\*   double(x, scale) -> {"doubled": x * scale}
\*   pair(x)          -> {"doubled": x * 2, "raw": x}
\*   scalar(x)        -> x
Call(f, function_args) ==
    CASE f = "double" ->
            IF KeySet(function_args) # {K_x, K_scale}
            THEN [err |-> TypeError, v |-> VInt(0)]
            ELSE LET m == Mul(Get(function_args, K_x), Get(function_args, K_scale))
                 IN  [err |-> m.err, v |-> VDict(<< <<K_doubled, m.v>> >>)]
      [] f = "pair" ->
            IF KeySet(function_args) # {K_x}
            THEN [err |-> TypeError, v |-> VInt(0)]
            ELSE LET m == Mul(Get(function_args, K_x), VInt(2))
                 IN  [err |-> m.err,
                      v |-> VDict(<< <<K_doubled, m.v>>,
                                     <<K_raw, Get(function_args, K_x)>> >>)]
      [] f = "scalar" ->
            IF KeySet(function_args) # {K_x}
            THEN [err |-> TypeError, v |-> VInt(0)]
            ELSE [err |-> NoErr, v |-> Get(function_args, K_x)]

\* --------------------------------------------- Additional-Field Evaluator
RECURSIVE MappedArgs(_, _)
MappedArgs(input_mapping, row) ==
    IF input_mapping = <<>> THEN <<>>
    ELSE (IF Has(row, input_mapping[1][2])
          THEN << <<input_mapping[1][1], Get(row, input_mapping[1][2])>> >>
          ELSE <<>>) \o MappedArgs(Tail(input_mapping), row)

WriteResult_unmapped(row, result, output_mapping) == Update(row, result)

WriteResult_keepFirst(row, result, output_mapping) ==
    LET fresh == SelectSeq(result,
                     LAMBDA kv : ~Has(row, GetOr(output_mapping, kv[1], kv[1])))
    IN  Update(row, [n \in 1..Len(fresh) |->
                        <<GetOr(output_mapping, fresh[n][1], fresh[n][1]),
                          fresh[n][2]>>])

\* the loop of lines 137-139
RECURSIVE WriteResult(_, _, _)
WriteResult(row, result, output_mapping) ==
    IF result = <<>> THEN row
    ELSE WriteResult(Put(row, GetOr(output_mapping, result[1][1], result[1][1]),
                         result[1][2]),
                     Tail(result), output_mapping)

RECURSIVE WriteConstant(_, _, _)
WriteConstant(row, output_fields, value) ==
    IF output_fields = <<>> THEN row
    ELSE WriteConstant(Put(row, output_fields[1], value), Tail(output_fields), value)

MissingArgs_keys(additional_field, row) ==
    KeySet(additional_field.input_mapping) \ KeySet(row)

\* set(input_mapping.values()) - set(row.keys())
MissingArgs(additional_field, row) ==
    {additional_field.input_mapping[i][2] :
        i \in 1..Len(additional_field.input_mapping)} \ KeySet(row)

\* one iteration of the loop of _apply_additional_fields; st is the row, the
\* exception raised so far and the log of the function calls made
ApplyOne(additional_field, st) ==
    IF Callable(additional_field.value)
    THEN LET function_args == MappedArgs(additional_field.input_mapping, st.row)
             missing_args == MissingArgs(additional_field, st.row)
             all_args == Update(function_args, additional_field.static_args)
             res == Call(ValOf(additional_field.value), all_args)
             called == Append(st.calls, [f |-> ValOf(additional_field.value),
                                         args |-> all_args])
         IN  IF missing_args # {}
             THEN [st EXCEPT !.err = MissingFieldError(missing_args)]
             ELSE IF Failed(res.err)
             THEN [st EXCEPT !.err = res.err, !.calls = called]
             ELSE IF IsDict(res.v)
             THEN [st EXCEPT !.row = WriteResult(st.row, ValOf(res.v),
                                                 additional_field.output_mapping),
                             !.calls = called]
             ELSE [st EXCEPT !.err = ValueError, !.calls = called]
    ELSE [st EXCEPT !.row = WriteConstant(st.row, additional_field.output_fields,
                                          additional_field.value)]

RECURSIVE ApplyFrom(_, _)
ApplyFrom(additional_fields, st) ==
    IF additional_fields = <<>> \/ Failed(st.err) THEN st
    ELSE ApplyFrom(Tail(additional_fields), ApplyOne(additional_fields[1], st))

ApplyAdditionalFields(self, row) ==
    ApplyFrom(self.additional_fields, [row |-> row, err |-> NoErr, calls |-> <<>>])

\* ---------------------------------------------------------- Row Processor
ProcessRow(self, row) ==
    LET ex == IF self.nested_key # <<>>
              THEN ExtractNestedData(self, row)
              ELSE [err |-> NoErr, v |-> VDict(row)]
    IN  IF Failed(ex.err)
        THEN [row |-> row, err |-> ex.err, calls |-> <<>>]
        ELSE IF self.additional_fields # <<>>
        THEN ApplyAdditionalFields(self, ValOf(ex.v))
        ELSE [row |-> ValOf(ex.v), err |-> NoErr, calls |-> <<>>]

InList(k, l) == \E i \in 1..Len(l) : l[i] = k

AppendCell_empty(self, ln, processed_row, key) ==
    LET sv == SanitizeValue(self, GetOr(processed_row, key, VStr(<<>>)))
    IN  [ln EXCEPT !.line = Append(ln.line, sv.s), !.w = ln.w \o sv.w]

\* one cell appended to the line under construction
AppendCell(self, ln, processed_row, key) ==
    LET sv == SanitizeValue(self, GetOr(processed_row, key,
                                        VStr(self.missing_value_placeholder)))
    IN  [ln EXCEPT !.line = Append(ln.line, sv.s), !.w = ln.w \o sv.w]

\* the loop over fields_mapping (lines 158-164)
RECURSIVE MappingCells(_, _, _, _)
MappingCells(self, fm, processed_row, ln) ==
    IF fm = <<>> \/ Failed(ln.err) THEN ln
    ELSE IF InList(fm[1][1], self.not_null_fields) /\ ~Has(processed_row, fm[1][1])
    THEN [ln EXCEPT !.err = MissingFieldError({FieldRepr})]
    ELSE MappingCells(self, Tail(fm), processed_row,
                      AppendCell(self, ln, processed_row, fm[1][1]))

\* the loop over an additional field's output_fields (lines 173-176)
RECURSIVE ConstantCells(_, _, _, _)
ConstantCells(self, output_fields, processed_row, ln) ==
    IF output_fields = <<>> THEN ln
    ELSE ConstantCells(self, Tail(output_fields), processed_row,
                       AppendCell(self, ln, processed_row, output_fields[1]))

ComputedCells_placeholder(self, targets, processed_row, ln) ==
    ConstantCells(self, targets, processed_row, ln)

\* the loop over an additional field's output_mapping.values() (lines 182-188)
RECURSIVE ComputedCells(_, _, _, _)
ComputedCells(self, targets, processed_row, ln) ==
    IF targets = <<>> \/ Failed(ln.err) THEN ln
    ELSE IF Has(processed_row, targets[1])
    THEN ComputedCells(self, Tail(targets), processed_row,
                       AppendCell(self, ln, processed_row, targets[1]))
    ELSE [ln EXCEPT !.err = MissingFieldError({targets[1]})]

\* the loop over additional_fields (lines 170-188)
RECURSIVE AdditionalCells(_, _, _, _)
AdditionalCells(self, additional_fields, processed_row, ln) ==
    IF additional_fields = <<>> \/ Failed(ln.err) THEN ln
    ELSE AdditionalCells(self, Tail(additional_fields), processed_row,
            ComputedCells(self, Values(additional_fields[1].output_mapping),
                          processed_row,
                          ConstantCells(self, additional_fields[1].output_fields,
                                        processed_row, ln)))

BuildLine(self, processed_row) ==
    AdditionalCells(self, self.additional_fields, processed_row,
        MappingCells(self, self.fields_mapping, processed_row,
                     [line |-> <<>>, err |-> NoErr, w |-> <<>>]))

\* sep.join(cells)
RECURSIVE Join(_, _)
Join(cells, sep) ==
    IF cells = <<>> THEN <<>>
    ELSE IF Len(cells) = 1 THEN cells[1]
    ELSE cells[1] \o <<sep>> \o Join(Tail(cells), sep)

\* the body of the loop of _process_chunk for one row
ProcessLine(self, row) ==
    LET pr == ProcessRow(self, row)
        ln == BuildLine(self, pr.row)
    IN  IF Failed(pr.err)
        THEN [text |-> <<>>, err |-> pr.err, w |-> <<>>, calls |-> pr.calls]
        ELSE IF Failed(ln.err)
        THEN [text |-> <<>>, err |-> ln.err, w |-> ln.w, calls |-> pr.calls]
        ELSE [text |-> Join(ln.line, TAB) \o <<NL>>, err |-> NoErr, w |-> ln.w,
              calls |-> pr.calls]

RECURSIVE ProcessChunkFrom(_, _, _)
ProcessChunkFrom(self, chunk, buffer) ==
    IF chunk = <<>> THEN [text |-> buffer, err |-> NoErr]
    ELSE LET l == ProcessLine(self, chunk[1])
         IN  IF Failed(l.err) THEN [text |-> <<>>, err |-> l.err]
             ELSE ProcessChunkFrom(self, Tail(chunk), buffer \o l.text)

ProcessChunk(self, chunk) == ProcessChunkFrom(self, chunk, <<>>)

\* -------------------------------------------------------- Chunk Scheduler
Max(a, b) == IF a >= b THEN a ELSE b

Min(a, b) == IF a <= b THEN a ELSE b

\* data[lo:hi]
Slice(data, lo, hi) == SubSeq(data, Min(lo, Len(data)) + 1, Min(hi, Len(data)))

SplitData_floor(data, num_chunks) ==
    LET chunk_size == Len(data) \div num_chunks
    IN  [i \in 1..num_chunks |-> Slice(data, (i - 1) * chunk_size, i * chunk_size)]

SplitData(data, num_chunks) ==
    LET chunk_size == Max(1, Len(data) \div num_chunks)
    IN  [i \in 1..num_chunks |-> Slice(data, (i - 1) * chunk_size, i * chunk_size)]

\* -------------------------------------------------------------- Assembler
RECURSIVE HeaderOfSpecs(_)
HeaderOfSpecs(additional_fields) ==
    IF additional_fields = <<>> THEN <<>>
    ELSE (IF Callable(additional_fields[1].value)
          THEN Values(additional_fields[1].output_mapping)
          ELSE additional_fields[1].output_fields)
         \o HeaderOfSpecs(Tail(additional_fields))

MakeHeader_keys(self) == Keys(self.fields_mapping) \o HeaderOfSpecs(self.additional_fields)

MakeHeader(self) == Values(self.fields_mapping) \o HeaderOfSpecs(self.additional_fields)

\* ------------------------------------------------------------ the inputs
\* missing_value_placeholder of a converter built with the default
DefaultPlaceholder == <<"N", "U", "L", "L">>

\* max_json_length of a converter built with the default
DefaultMaxJsonLength == 100000

K_pts == <<"p", "t", "s">>

FM_example == << <<K_id, K_id>>, <<K_name, K_name>> >>

FM_scored == << <<K_id, K_id>>, <<K_name, K_name>>, <<K_score, K_pts>> >>

FieldMappings == {FM_example, FM_scored}

NotNullChoices == {<<>>, <<K_id>>}

\* None and [] behave alike in "if self.nested_key": both are <<>> here
NestedKeyChoices == {<<>>, <<K_source>>}

R_1 == << <<K_id, VStr(<<"1">>)>> >>

R_2 == << <<K_id, VStr(<<"2">>)>>, <<K_name, VStr(<<"B", "o", "b">>)>> >>

R_score == << <<K_score, VInt(5)>> >>

R_scored == << <<K_name, VStr(<<"a", TAB, "b">>)>>, <<K_score, VInt(5)>> >>

R_nested ==
    << <<K_source, VDict(<< <<K_id, VStr(<<"3">>)>>,
                            <<K_name, VStr(<<"a", TAB, "b">>)>>,
                            <<K_score, VInt(5)>> >>)>> >>

R_tabs == << <<K_id, VStr(<<"4">>)>>, <<K_name, VStr(<<"a", TAB, "b", NL, "c">>)>> >>

\* the records a caller passes to convert / to the row processor; the level
\* a nested_key leads to is always a mapping
RecordSet == {R_1, R_2, R_scored}

RowRecordSet == RecordSet \cup {R_score, R_nested, R_tabs}

AdditionalFields(value, input_mapping, static_args, output_mapping, output_fields) ==
    [value |-> value, input_mapping |-> input_mapping, static_args |-> static_args,
     output_mapping |-> output_mapping, output_fields |-> output_fields]

A_const == AdditionalFields(VStr(<<"x">>), <<>>, <<>>, <<>>, <<K_src>>)

A_double == AdditionalFields(VFunc("double"), << <<K_x, K_score>> >>,
                             << <<K_scale, VInt(2)>> >>,
                             << <<K_doubled, K_score_x2>> >>, <<>>)

A_both == AdditionalFields(VFunc("double"), << <<K_x, K_score>> >>,
                           << <<K_scale, VInt(2)>> >>,
                           << <<K_doubled, K_score_x2>> >>, <<K_src>>)

A_pair == AdditionalFields(VFunc("pair"), << <<K_x, K_score>> >>, <<>>,
                           << <<K_doubled, K_score_x2>> >>, <<>>)

A_scalar == AdditionalFields(VFunc("scalar"), << <<K_x, K_score>> >>, <<>>, <<>>, <<>>)

\* double returns no "raw": the target column raw is never written
A_partial == AdditionalFields(VFunc("double"), << <<K_x, K_score>> >>,
                              << <<K_scale, VInt(2)>> >>,
                              << <<K_doubled, K_score_x2>>, <<K_raw, K_raw>> >>, <<>>)

\* double again, of the column an earlier double wrote, into the same column
A_redouble == AdditionalFields(VFunc("double"), << <<K_x, K_score_x2>> >>,
                               << <<K_scale, VInt(2)>> >>,
                               << <<K_doubled, K_score_x2>> >>, <<>>)

SpecSet == {A_const, A_double, A_both}

RowSpecSet == SpecSet \cup {A_scalar, A_pair, A_partial, A_redouble}

SeqsUpTo(S, n) == UNION {[1..m -> S] : m \in 0..n}

\* the dataclass TSVConverter
TSVConverter(fields_mapping, not_null_fields, num_processes, additional_fields, nested_key) ==
    [fields_mapping |-> fields_mapping, not_null_fields |-> not_null_fields,
     missing_value_placeholder |-> DefaultPlaceholder,
     num_processes |-> num_processes, additional_fields |-> additional_fields,
     max_json_length |-> DefaultMaxJsonLength, nested_key |-> nested_key]

\* __post_init__
PostInit(num_processes) ==
    IF num_processes > AvailableCores
    THEN <<ExcessiveProcessesWarning(num_processes, AvailableCores)>>
    ELSE <<>>

\* ---------------------------------------------------------------- state
VARIABLES
    self,       \* the converter object
    warned,     \* warnings emitted by the constructor
    pc,         \* where the caller of convert is
    data,       \* the argument of the convert call in progress
    header,     \* convert's local header
    job,        \* the converter as pickled to the workers with the tasks
    chunks,     \* convert's local chunks
    pool,       \* the number of worker processes of the pool (0: no pool)
    tasks,      \* per chunk: whether its task has completed, and its outcome
    finished,   \* chunk indexes in the order their tasks completed
    failure,    \* the first exception the pool received from a task
    output,     \* the text convert returned
    raised,     \* the exception convert raised
    r_pc,       \* row processor: where it is
    r_in,       \* row processor: the record passed in
    r_row,      \* row processor: the row being decorated
    r_idx,      \* row processor: additional fields evaluated so far
    r_err,      \* row processor: the exception raised
    r_calls,    \* row processor: calls made to functions of computed specs
    r_ln,       \* row processor: the line under construction, and the text written
    e_pc,       \* nested extraction: where the call of _process_row is
    e_in,       \* nested extraction: the record passed in
    e_rec,      \* nested extraction: the record passed in, as the call leaves it
    e_out,      \* nested extraction: the value returned
    e_err,      \* nested extraction: the exception raised
    s_pc,       \* line building: where it is
    s_vals,     \* line building: the values to sanitize, one per cell
    s_line,     \* line building: the local line, the cells appended so far
    s_warn,     \* line building: per call of _sanitize_value, the warnings emitted
    s_text,     \* line building: the text written to the buffer
    q_pc,       \* query model: whether build_query has been called
    q_model,    \* query model: the ElasticQueryModel object
    q_query,    \* query model: the dict build_query returned
    x_pc,       \* extract_data: where the generator is
    x_scroll_id,  \* extract_data: its local scroll_id
    x_hits,     \* extract_data: its local hits
    x_yielded,  \* extract_data: the batches yielded to the consumer, in order
    x_responses,  \* the responses the index returned to search and scroll, in order
    x_requests,   \* the scroll ids of the scroll requests made, in order
    x_err,      \* extract_data: the exception raised
    t_pc,       \* iso_to_dict: where the call is
    t_args,     \* iso_to_dict: the arguments of the call
    t_ret,      \* iso_to_dict: the mapping returned
    t_err,      \* iso_to_dict: the exception raised
    t_warn      \* iso_to_dict: the warnings emitted

conv_vars ==
    <<pc, data, header, job, chunks, pool, tasks, finished, failure, output, raised>>

row_vars == <<r_pc, r_in, r_row, r_idx, r_err, r_calls, r_ln>>

ext_vars == <<e_pc, e_in, e_rec, e_out, e_err>>

\* the state of the components other than the converter's convert and row
\* processing
san_vars == <<s_pc, s_vals, s_line, s_warn, s_text>>

qry_vars == <<q_pc, q_model, q_query>>

scr_vars == <<x_pc, x_scroll_id, x_hits, x_yielded, x_responses, x_requests, x_err>>

time_vars == <<t_pc, t_args, t_ret, t_err, t_warn>>

other_vars == <<ext_vars, san_vars, qry_vars, scr_vars, time_vars>>

vars == <<self, warned, conv_vars, row_vars, other_vars>>

NoLine == [line |-> <<>>, err |-> NoErr, w |-> <<>>, text |-> <<>>]

ConvIdle ==
    /\ pc = "idle"
    /\ data = <<>>
    /\ header = <<>>
    /\ job = self
    /\ chunks = <<>>
    /\ pool = 0
    /\ tasks = <<>>
    /\ finished = <<>>
    /\ failure = NoErr
    /\ output = <<>>
    /\ raised = NoErr

RowIdle ==
    /\ r_pc = "idle"
    /\ r_in = <<>>
    /\ r_row = <<>>
    /\ r_idx = 0
    /\ r_err = NoErr
    /\ r_calls = <<>>
    /\ r_ln = NoLine

ExtIdle ==
    /\ e_pc = "idle"
    /\ e_in = <<>>
    /\ e_rec = <<>>
    /\ e_out = VNone
    /\ e_err = NoErr

SanIdle ==
    /\ s_pc = "idle"
    /\ s_vals = <<>>
    /\ s_line = <<>>
    /\ s_warn = <<>>
    /\ s_text = <<>>

\* no ElasticQueryModel has been built
QryIdle ==
    /\ q_pc = "none"
    /\ q_model = VNone
    /\ q_query = VNone

\* the generator extract_data returned, before its first next()
ScrIdle ==
    /\ x_pc = "created"
    /\ x_scroll_id = "None"
    /\ x_hits = <<>>
    /\ x_yielded = <<>>
    /\ x_responses = <<>>
    /\ x_requests = <<>>
    /\ x_err = NoErr

TimeIdle ==
    /\ t_pc = "idle"
    /\ t_args = [iso_time |-> <<>>, expected_timezone |-> 0,
                 handle_timezone |-> "error", allow_empty |-> FALSE]
    /\ t_ret = <<>>
    /\ t_err = NoErr
    /\ t_warn = <<>>

OthersIdle == ExtIdle /\ SanIdle /\ QryIdle /\ ScrIdle /\ TimeIdle

\* a converter as constructed, before any additional field is added, with
\* the defaults for nested_key, the placeholder and max_json_length (the row
\* processor with a nested_key is the subject of SpecRow)
Init ==
    /\ \E fm \in FieldMappings, nn \in NotNullChoices, np \in 1..MaxProcs :
          /\ self = TSVConverter(fm, nn, np, <<>>, <<>>)
          /\ warned = PostInit(np)
    /\ ConvIdle
    /\ RowIdle
    /\ OthersIdle

\* ------------------------------------------------------------- operations
add_additional_fields(additional_fields) ==
    /\ pc = "idle"
    /\ Len(self.additional_fields) < MaxSpecs
    /\ self' = [self EXCEPT !.additional_fields = Append(@, additional_fields)]
    /\ job' = self'
    /\ UNCHANGED <<warned, pc, data, header, chunks, pool, tasks, finished,
                   failure, output, raised, row_vars, other_vars>>

\* convert, lines 207-217: the header is made
ConvertHeader(d) ==
    /\ pc = "idle"
    /\ data' = d
    /\ header' = MakeHeader(self)
    /\ pc' = "header"
    /\ UNCHANGED <<self, warned, job, chunks, pool, tasks, finished, failure,
                   output, raised, row_vars, other_vars>>

PoolSize_capped(self_) == Min(self_.num_processes, AvailableCores)

\* Pool(self.num_processes), line 221
PoolSize(self_) == self_.num_processes

\* convert, lines 220-222: the chunks are made and handed to the pool, one
\* task per chunk, each with the pickled bound method self._process_chunk
ConvertDispatch ==
    /\ pc = "header"
    /\ chunks' = SplitData(data, self.num_processes)
    /\ pool' = PoolSize(self)
    /\ job' = self
    /\ tasks' = [i \in 1..self.num_processes |->
                    [done |-> FALSE, text |-> <<>>, err |-> NoErr]]
    /\ pc' = "running"
    /\ UNCHANGED <<self, warned, data, header, finished, failure, output, raised,
                   row_vars, other_vars>>

CallerData_shared(d, i) ==
    LET chunk_size == Max(1, Len(d) \div job.num_processes)
    IN  [n \in 1..Len(d) |->
            IF (i - 1) * chunk_size < n /\ n <= i * chunk_size
            THEN ProcessRow(job, d[n]).row
            ELSE d[n]]

\* the caller's records once a worker has processed chunk i: pool.map pickles
\* each chunk to its worker process, which decorates the rows of its own copy
CallerData(d, i) == d

\* a worker of the pool completes the task of chunk i
WorkerDone(i) ==
    /\ pc = "running"
    /\ ~tasks[i].done
    /\ data' = CallerData(data, i)
    /\ LET res == ProcessChunk(job, chunks[i])
       IN  /\ tasks' = [tasks EXCEPT ![i] = [done |-> TRUE, text |-> res.text,
                                             err |-> res.err]]
           /\ failure' = IF Failed(res.err) /\ ~Failed(failure) THEN res.err
                         ELSE failure
    /\ finished' = Append(finished, i)
    /\ UNCHANGED <<self, warned, pc, header, job, chunks, pool, output,
                   raised, row_vars, other_vars>>

MapOrder_completion == finished

\* the order in which pool.map lists the results of the tasks
MapOrder == [i \in 1..Len(tasks) |-> i]

RECURSIVE CombineChunks(_)
CombineChunks(order) ==
    IF order = <<>> THEN <<>>
    ELSE tasks[order[1]].text \o CombineChunks(Tail(order))

MapFailure_firstTask == tasks[1].err

\* what pool.map does once every task has completed: it raises the first
\* exception received, if any
MapFailure == failure

ConvertCollect_early ==
    /\ pc = "running"
    /\ pool' = 0
    /\ IF Failed(MapFailure)
       THEN /\ pc' = "raised"
            /\ raised' = MapFailure
            /\ output' = <<>>
       ELSE /\ pc' = "done"
            /\ raised' = NoErr
            /\ output' = Join(header, TAB) \o <<NL>> \o CombineChunks(MapOrder)
    /\ UNCHANGED <<self, warned, data, header, job, chunks, tasks, finished,
                   failure, row_vars, other_vars>>

\* convert, lines 221-234: pool.map returns or raises, the with block ends
\* the pool, the table is assembled
ConvertCollect ==
    /\ pc = "running"
    /\ \A i \in 1..Len(tasks) : tasks[i].done
    /\ pool' = 0
    /\ IF Failed(MapFailure)
       THEN /\ pc' = "raised"
            /\ raised' = MapFailure
            /\ output' = <<>>
       ELSE /\ pc' = "done"
            /\ raised' = NoErr
            /\ output' = Join(header, TAB) \o <<NL>> \o CombineChunks(MapOrder)
    /\ UNCHANGED <<self, warned, data, header, job, chunks, tasks, finished,
                   failure, row_vars, other_vars>>

\* the caller has the result and the converter is free for the next call
ConvertReturn ==
    /\ pc \in {"done", "raised"}
    /\ pc' = "idle"
    /\ data' = <<>>
    /\ header' = <<>>
    /\ chunks' = <<>>
    /\ pool' = 0
    /\ tasks' = <<>>
    /\ finished' = <<>>
    /\ failure' = NoErr
    /\ output' = <<>>
    /\ raised' = NoErr
    /\ UNCHANGED <<self, warned, job, row_vars, other_vars>>

Next ==
    \/ \E af \in SpecSet : add_additional_fields(af)
    \/ \E d \in SeqsUpTo(RecordSet, MaxRecords) : ConvertHeader(d)
    \/ ConvertDispatch
    \/ \E i \in 1..MaxProcs : i <= Len(tasks) /\ WorkerDone(i)
    \/ ConvertCollect
    \/ ConvertReturn

Spec == Init /\ [][Next]_vars

\* the conversion with its scheduling: the caller goes on from the header to
\* the dispatch, every worker of the pool that has a task completes it (the
\* pool has one worker per task and _process_chunk is a terminating loop),
\* and pool.map returns to the caller once every task has completed
\* (checked on the converters of one fields_mapping, with one kind of
\* additional field and the records R_1 and R_scored)
InitFair ==
    /\ \E nn \in NotNullChoices, np \in 1..MaxProcs :
          /\ self = TSVConverter(FM_scored, nn, np, <<>>, <<>>)
          /\ warned = PostInit(np)
    /\ ConvIdle
    /\ RowIdle
    /\ OthersIdle

NextFair ==
    \/ add_additional_fields(A_double)
    \/ \E d \in SeqsUpTo({R_1, R_scored}, MaxRecords) : ConvertHeader(d)
    \/ ConvertDispatch
    \/ \E i \in 1..MaxProcs : i <= Len(tasks) /\ WorkerDone(i)
    \/ ConvertCollect
    \/ ConvertReturn

\* the step of WorkerDone as the pool sees it: the task of some chunk that
\* had not completed completes.  It is enabled exactly when some WorkerDone(i)
\* is, and a step of the conversion is a WorkerStep exactly when it is a
\* WorkerDone(i) step.
WorkerStep ==
    \E i \in 1..Len(tasks) :
        pc = "running" /\ ~tasks[i].done /\ finished' = Append(finished, i)

SpecFair ==
    /\ InitFair
    /\ [][NextFair]_vars
    /\ WF_vars(ConvertDispatch)
    /\ WF_finished(WorkerStep)
    /\ WF_vars(ConvertCollect)

\* ------------------------------- the converter shared with another thread
\* add_additional_fields called by a thread other than the one that is in
\* convert: the list is appended to wherever the convert call is.  The
\* workers of a call already dispatched hold their pickled converter.
add_additional_fields_concurrently(additional_fields) ==
    /\ Len(self.additional_fields) < MaxSpecs
    /\ self' = [self EXCEPT !.additional_fields = Append(@, additional_fields)]
    /\ job' = IF pc \in {"running", "done", "raised"} THEN job ELSE self'
    /\ UNCHANGED <<warned, pc, data, header, chunks, pool, tasks, finished,
                   failure, output, raised, row_vars, other_vars>>

NextThreads ==
    \/ \E af \in {A_const, A_double} : add_additional_fields_concurrently(af)
    \/ \E d \in SeqsUpTo({R_1, R_scored}, MaxRecords) : ConvertHeader(d)
    \/ ConvertDispatch
    \/ \E i \in 1..MaxProcs : i <= Len(tasks) /\ WorkerDone(i)
    \/ ConvertCollect
    \/ ConvertReturn

SpecThreads == InitFair /\ [][NextThreads]_vars

\* ------------------------------------------ the row processor, step by step
\* a converter with its additional fields already added, about to process rows
InitRow ==
    /\ \E fm \in FieldMappings, nn \in NotNullChoices, nk \in NestedKeyChoices,
          afs \in SeqsUpTo(RowSpecSet, MaxSpecs) :
          /\ self = TSVConverter(fm, nn, 1, afs, nk)
          /\ warned = PostInit(1)
    /\ ConvIdle
    /\ RowIdle
    /\ OthersIdle

\* _process_chunk takes the next row; _process_row, lines 98-99
RowStart(row) ==
    /\ r_pc = "idle"
    /\ r_in' = row
    /\ LET ex == IF self.nested_key # <<>>
                 THEN ExtractNestedData(self, row)
                 ELSE [err |-> NoErr, v |-> VDict(row)]
       IN  /\ r_err' = ex.err
           /\ r_row' = IF Failed(ex.err) THEN row ELSE ValOf(ex.v)
           /\ r_pc' = IF Failed(ex.err) THEN "failed" ELSE "apply"
    /\ UNCHANGED <<self, warned, conv_vars, other_vars, r_idx, r_calls, r_ln>>

\* _apply_additional_fields, one iteration of the loop of line 108
RowApply ==
    /\ r_pc = "apply"
    /\ r_idx < Len(self.additional_fields)
    /\ LET st == ApplyOne(self.additional_fields[r_idx + 1],
                          [row |-> r_row, err |-> r_err, calls |-> r_calls])
       IN  /\ r_row' = st.row
           /\ r_err' = st.err
           /\ r_calls' = st.calls
           /\ r_pc' = IF Failed(st.err) THEN "failed" ELSE "apply"
    /\ r_idx' = r_idx + 1
    /\ UNCHANGED <<self, warned, conv_vars, other_vars, r_in, r_ln>>

\* _process_chunk, lines 155-193: the line of the processed row
RowBuild ==
    /\ r_pc = "apply"
    /\ r_idx = Len(self.additional_fields)
    /\ LET ln == BuildLine(self, r_row)
       IN  /\ r_ln' = [line |-> ln.line, err |-> ln.err, w |-> ln.w,
                       text |-> IF Failed(ln.err) THEN <<>>
                                ELSE Join(ln.line, TAB) \o <<NL>>]
           /\ r_err' = ln.err
           /\ r_pc' = IF Failed(ln.err) THEN "failed" ELSE "done"
    /\ UNCHANGED <<self, warned, conv_vars, other_vars, r_in, r_row, r_idx, r_calls>>

NextRow ==
    \/ \E row \in RowRecordSet : RowStart(row)
    \/ RowApply
    \/ RowBuild

SpecRow == InitRow /\ [][NextRow]_vars

\* ------------------------------------------- the nested extractor, alone
K_doc == <<"d", "o", "c">>

R_deep ==
    << <<K_source, VDict(<< <<K_doc, VDict(<< <<K_id, VStr(<<"5">>)>> >>)>> >>)>> >>

R_leaf == << <<K_source, VStr(<<"x">>)>> >>

R_list == << <<K_source, VList(<<VInt(1)>>)>>, <<K_doc, VDict(R_1)>> >>

\* records with mappings, texts and lists at the levels the paths lead to
ExtractRecordSet == {R_1, R_nested, R_deep, R_leaf, R_list}

ExtractPaths == SeqsUpTo({K_source, K_doc, K_id}, MaxPath)

InitExtract ==
    /\ \E nk \in ExtractPaths :
          /\ self = TSVConverter(FM_example, <<>>, 1, <<>>, nk)
          /\ warned = PostInit(1)
    /\ ConvIdle
    /\ RowIdle
    /\ OthersIdle

\* _process_row, lines 98-99, on a record
Extract(row) ==
    /\ e_pc = "idle"
    /\ e_in' = row
    /\ e_rec' = row
    /\ LET ex == IF self.nested_key # <<>>
                 THEN ExtractNestedData(self, row)
                 ELSE [err |-> NoErr, v |-> VDict(row)]
       IN  /\ e_err' = ex.err
           /\ e_out' = IF Failed(ex.err) THEN VNone ELSE ex.v
           /\ e_pc' = IF Failed(ex.err) THEN "failed" ELSE "returned"
    /\ UNCHANGED <<self, warned, conv_vars, row_vars, san_vars, qry_vars, scr_vars, time_vars>>

\* the caller has the outcome
ExtractReturn ==
    /\ e_pc \in {"returned", "failed"}
    /\ e_pc' = "idle"
    /\ e_in' = <<>>
    /\ e_rec' = <<>>
    /\ e_out' = VNone
    /\ e_err' = NoErr
    /\ UNCHANGED <<self, warned, conv_vars, row_vars, san_vars, qry_vars, scr_vars, time_vars>>

NextExtract ==
    \/ \E row \in ExtractRecordSet : Extract(row)
    \/ ExtractReturn

SpecExtract == InitExtract /\ [][NextExtract]_vars

\* ------------------------------------- the sanitizer and the line, alone
\* a max_json_length small enough for the values below to exceed
SmallMaxJsonLength == 3

MaxJsonLengths == {SmallMaxJsonLength, DefaultMaxJsonLength}

V_tabs == VStr(<<TAB, "A", NL, "B">>)

\* str, int, None, and lists and dicts with tabs and newlines inside;
\* json.dumps gives [] (2 characters), [1] (3) and longer texts
SanitizeValueSet ==
    {V_tabs, VStr(<<"B", "o", "b">>), VStr(<<>>), VInt(5), VNone,
     VList(<<>>), VList(<<VInt(1)>>),
     VList(<<VStr(<<"x", NL>>), VInt(0 - 2), VNone>>),
     VDict(<< <<K_name, VStr(<<"a", TAB, "b">>)>> >>)}

NonEmptySeqsUpTo(S, n) == UNION {[1..m -> S] : m \in 1..n}

InitSanitize ==
    /\ \E m \in MaxJsonLengths :
          /\ self = [TSVConverter(FM_example, <<>>, 1, <<>>, <<>>)
                        EXCEPT !.max_json_length = m]
          /\ warned = PostInit(1)
    /\ ConvIdle
    /\ RowIdle
    /\ OthersIdle

\* _process_chunk, line 155: a line is begun for a row whose cells have the
\* values vals
LineStart(vals) ==
    /\ s_pc = "idle"
    /\ s_pc' = "line"
    /\ s_vals' = vals
    /\ s_line' = <<>>
    /\ s_warn' = <<>>
    /\ s_text' = <<>>
    /\ UNCHANGED <<self, warned, conv_vars, row_vars, ext_vars, qry_vars, scr_vars, time_vars>>

\* _process_chunk, lines 163-164 (175-176, 185-186): the next value is
\* sanitized and appended
SanitizeNext ==
    /\ s_pc = "line"
    /\ Len(s_line) < Len(s_vals)
    /\ LET sv == SanitizeValue(self, s_vals[Len(s_line) + 1])
       IN  /\ s_line' = Append(s_line, sv.s)
           /\ s_warn' = Append(s_warn, sv.w)
    /\ UNCHANGED <<self, warned, conv_vars, row_vars, ext_vars, qry_vars, scr_vars, time_vars,
                   s_pc, s_vals, s_text>>

\* _process_chunk, line 193
WriteLine ==
    /\ s_pc = "line"
    /\ Len(s_line) = Len(s_vals)
    /\ s_text' = Join(s_line, TAB) \o <<NL>>
    /\ s_pc' = "written"
    /\ UNCHANGED <<self, warned, conv_vars, row_vars, ext_vars, qry_vars, scr_vars, time_vars,
                   s_vals, s_line, s_warn>>

NextSanitize ==
    \/ \E vals \in NonEmptySeqsUpTo(SanitizeValueSet, MaxCells) : LineStart(vals)
    \/ SanitizeNext
    \/ WriteLine

SpecSanitize == InitSanitize /\ [][NextSanitize]_vars

\* ------------------------------------------------------ ElasticQueryModel
\* (src/models/queries/elastic_query_model.py)  The dicts of a query have
\* strings for keys; a str value is <<"str", text>> with the text a string.

\* bool(x) of an Optional[str], Optional[List] or Optional[Dict]
Truthy(x) ==
    CASE TypeOf(x) = "None" -> FALSE
      [] TypeOf(x) = "str" -> ValOf(x) # ""
      [] OTHER -> ValOf(x) # <<>>

ElasticQueryModel(source_fields, range_field, start_time, end_time, range_format, filters) ==
    [source_fields |-> source_fields, range_field |-> range_field,
     start_time |-> start_time, end_time |-> end_time,
     range_format |-> range_format, filters |-> filters,
     sort_field |-> "timestamp", sort_order |-> "asc"]

RangeWanted_either(m) == Truthy(m.start_time) \/ Truthy(m.end_time)

\* the condition of line 25
RangeWanted(m) == Truthy(m.start_time) /\ Truthy(m.end_time)

\* lines 26-35
RangeFilter(m) ==
    VDict(<< <<"range",
               VDict(<< <<m.range_field,
                          VDict(<< <<"gte", m.start_time>>, <<"lt", m.end_time>> >>
                                \o (IF Truthy(m.range_format)
                                    THEN << <<"format", m.range_format>> >>
                                    ELSE <<>>))>> >>)>> >>)

MatchAll == VDict(<< <<"match_all", VDict(<<>>)>> >>)

\* line 55
TermFilters(filters) ==
    [i \in 1..Len(filters) |->
        VDict(<< <<"term", VDict(<< <<filters[i][1], filters[i][2]>> >>)>> >>)]

build_query(m) ==
    LET must_ranged == IF RangeWanted(m) THEN <<RangeFilter(m)>> ELSE <<>>
        must_conditions == IF must_ranged = <<>> THEN <<MatchAll>> ELSE must_ranged
        bool == << <<"must", VList(must_conditions)>> >>
                \o (IF Truthy(m.filters)
                    THEN << <<"filter", VList(TermFilters(ValOf(m.filters)))>> >>
                    ELSE <<>>)
    IN  VDict(<< <<"query", VDict(<< <<"bool", VDict(bool)>> >>)>>,
                 <<"sort", VList(<<VDict(<< <<m.sort_field,
                                             VDict(<< <<"order", VStr(m.sort_order)>> >>)>> >>)>>)>> >>
              \o (IF Truthy(m.source_fields)
                  THEN << <<"_source", m.source_fields>> >>
                  ELSE <<>>))

\* what a caller passes for a time bound: nothing, an empty text, a time
TimeChoices(t) == {VNone, VStr(""), t}

QueryModels ==
    {ElasticQueryModel(sf, rf, st, et, fmt, fl) :
        sf \in {VNone, VList(<<>>), VList(<<VStr("id")>>)},
        rf \in {"timestamp", "created"},
        st \in TimeChoices(VStr("2024-01-01 00:00:00")),
        et \in TimeChoices(VStr("2024-02-01 00:00:00")),
        fmt \in {VNone, VStr("yyyy-MM-dd HH:mm:ss")},
        fl \in {VNone, VDict(<<>>), VDict(<< <<"status", VStr("active")>> >>)}}

InitQuery ==
    /\ self = TSVConverter(FM_example, <<>>, 1, <<>>, <<>>)
    /\ warned = PostInit(1)
    /\ ConvIdle
    /\ RowIdle
    /\ OthersIdle

\* ElasticQueryModel(...)
NewQueryModel(m) ==
    /\ q_pc = "none"
    /\ q_model' = m
    /\ q_pc' = "model"
    /\ UNCHANGED <<self, warned, conv_vars, row_vars, ext_vars, san_vars, scr_vars, time_vars,
                   q_query>>

\* query_model.build_query()
BuildQueryCall ==
    /\ q_pc = "model"
    /\ q_query' = build_query(q_model)
    /\ q_pc' = "built"
    /\ UNCHANGED <<self, warned, conv_vars, row_vars, ext_vars, san_vars, scr_vars, time_vars,
                   q_model>>

NextQuery ==
    \/ \E m \in QueryModels : NewQueryModel(m)
    \/ BuildQueryCall

SpecQuery == InitQuery /\ [][NextQuery]_vars

\* --------------------------------------------- ElasticSearchService.extract_data
\* (src/services/sources/implementations/internal_raw_storage/elasticsearch_service.py)
\* A response of the index is its scroll id ("None": no _scroll_id key) and
\* its hits (<<>> also for a response without hits); a document is a number.
Response(scroll_id, hits) == [scroll_id |-> scroll_id, hits |-> hits]

ScrollIds == {"None", "s1", "s2"}

HitBatches == {<<>>, <<1>>, <<2, 3>>}

InitScroll ==
    /\ self = TSVConverter(FM_example, <<>>, 1, <<>>, <<>>)
    /\ warned = PostInit(1)
    /\ ConvIdle
    /\ RowIdle
    /\ OthersIdle

NextScrollId_kept(scroll_id, response) ==
    IF scroll_id = "None" THEN response.scroll_id ELSE scroll_id

\* lines 80, 92: the scroll id for the next request
NextScrollId(scroll_id, response) == response.scroll_id

\* lines 79-85, 91-93: the response is taken in, the loop test, the yield
TakeResponse(response) ==
    /\ x_responses' = Append(x_responses, response)
    /\ x_scroll_id' = NextScrollId(x_scroll_id, response)
    /\ x_hits' = response.hits
    /\ IF response.hits # <<>>
       THEN /\ x_yielded' = Append(x_yielded, response.hits)
            /\ x_pc' = "yielded"
       ELSE /\ x_yielded' = x_yielded
            /\ x_pc' = "finished"
    /\ x_err' = NoErr

\* lines 76-77, 89-90: the client raised
ClientRaises ==
    /\ x_pc' = "raised"
    /\ x_err' = ElasticSearchError
    /\ UNCHANGED <<x_scroll_id, x_hits, x_yielded, x_responses>>

\* the first next() of the generator: lines 72-85, the search request
ExtractSearch ==
    /\ x_pc = "created"
    /\ \/ \E sid \in ScrollIds, hits \in HitBatches : TakeResponse(Response(sid, hits))
       \/ ClientRaises
    /\ UNCHANGED <<self, warned, conv_vars, row_vars, ext_vars, san_vars, qry_vars,
                   time_vars, x_requests>>

\* a later next() of the generator, suspended at the yield: lines 86-93 and
\* 84-85, the scroll request
ExtractScroll ==
    /\ x_pc = "yielded"
    /\ Len(x_responses) < MaxResponses
    /\ x_requests' = Append(x_requests, x_scroll_id)
    /\ \/ \E sid \in ScrollIds, hits \in HitBatches : TakeResponse(Response(sid, hits))
       \/ ClientRaises
    /\ UNCHANGED <<self, warned, conv_vars, row_vars, ext_vars, san_vars, qry_vars, time_vars>>

NextScroll ==
    \/ ExtractSearch
    \/ ExtractScroll

SpecScroll == InitScroll /\ [][NextScroll]_vars

\* ------------------------------------------------------ reading a table
\* text.split(sep)
RECURSIVE Split(_, _)
Split(text, sep) ==
    IF \A i \in 1..Len(text) : text[i] # sep THEN <<text>>
    ELSE LET i == CHOOSE n \in 1..Len(text) :
                     text[n] = sep /\ \A m \in 1..(n - 1) : text[m] # sep
         IN  <<SubSeq(text, 1, i - 1)>> \o Split(SubSeq(text, i + 1, Len(text)), sep)

\* the lines of a text whose every line ends with a newline
Lines(text) == LET parts == Split(text, NL) IN SubSeq(parts, 1, Len(parts) - 1)

Cells(line) == Split(line, TAB)

DataRows(text) == Tail(Lines(text))

Returned == pc = "done"

Ended == pc \in {"done", "raised"}

RECURSIVE SumLen(_, _)
SumLen(i, n) == IF i > n THEN 0 ELSE Len(tasks[i].text) + SumLen(i + 1, n)

\* the number of columns an additional field contributes by its form
ColumnsOf(af) ==
    IF Callable(af.value) THEN Len(af.output_mapping) ELSE Len(af.output_fields)

NamesOf(af) ==
    IF Callable(af.value) THEN Values(af.output_mapping) ELSE af.output_fields

RECURSIVE SumColumns(_, _)
SumColumns(afs, n) == IF n = 0 THEN 0 ELSE ColumnsOf(afs[n]) + SumColumns(afs, n - 1)

\* ------------------------------------------------------------ iso_to_dict
\* (src/app/utils/time_converter.py)  Texts are sequences of characters;
\* text[i] of Python is text[i + 1] here.
IsDigit(c) == c \in {"0", "1", "2", "3", "4", "5", "6", "7", "8", "9"}

AllDigits(text) == \A i \in 1..Len(text) : IsDigit(text[i])

\* int(text) of a text of digits
RECURSIVE ToInt(_)
ToInt(text) ==
    IF text = <<>> THEN 0
    ELSE 10 * ToInt(SubSeq(text, 1, Len(text) - 1))
         + (CHOOSE n \in 0..9 : Digit(n) = text[Len(text)])

\* text.rstrip(c)
RECURSIVE RStrip(_, _)
RStrip(text, c) ==
    IF text # <<>> /\ text[Len(text)] = c
    THEN RStrip(SubSeq(text, 1, Len(text) - 1), c)
    ELSE text

\* text.ljust(width, c)
LJust(text, width, c) ==
    text \o [i \in 1..Max(0, width - Len(text)) |-> c]

\* text.zfill(width)
ZFill(text, width) ==
    [i \in 1..Max(0, width - Len(text)) |-> "0"] \o text

RECURSIVE Pow10(_)
Pow10(n) == IF n <= 0 THEN 1 ELSE 10 * Pow10(n - 1)

\* round(n / d) of Python 3: to the nearest integer, a half to the even one
Round(n, d) ==
    LET q == n \div d
        r == n % d
    IN  IF 2 * r < d THEN q
        ELSE IF 2 * r > d THEN q + 1
        ELSE IF q % 2 = 0 THEN q ELSE q + 1

\* text.split(sep, maxsplit=1)
SplitOnce(text, sep) ==
    IF \A i \in 1..Len(text) : text[i] # sep THEN <<text>>
    ELSE LET i == CHOOSE n \in 1..Len(text) :
                     text[n] = sep /\ \A m \in 1..(n - 1) : text[m] # sep
         IN  <<SubSeq(text, 1, i - 1), SubSeq(text, i + 1, Len(text))>>

\* normalize_iso_time, for a max_fraction_length of at least 6
normalize_iso_time(iso_time, max_fraction_length) ==
    LET parts == Split(iso_time, "T")
    IN  IF Len(parts) # 2 THEN [err |-> ValueError, v |-> <<>>]
        ELSE
        LET date_part == parts[1]
            time_part == parts[2]
        IN  IF \E i \in 1..Len(time_part) : time_part[i] = "."
            THEN LET two == SplitOnce(time_part, ".")
                     main_time == two[1]
                     fraction_and_tz == two[2]
                     fraction ==
                         Split(Split(RStrip(fraction_and_tz, "Z"), "+")[1], "-")[1]
                 IN  IF Len(fraction) > max_fraction_length
                     THEN [err |-> InvalidFormatError, v |-> <<>>]
                     ELSE IF ~AllDigits(fraction)
                     THEN [err |-> ValueError, v |-> <<>>]
                     ELSE
                     LET fraction_normalized ==
                             ZFill(IntToStr(Round(
                                 ToInt(LJust(fraction, max_fraction_length, "0")),
                                 Pow10(max_fraction_length - 6))), 6)
                     IN  [err |-> NoErr,
                          v |-> date_part \o <<"T">> \o main_time \o <<".">>
                                \o fraction_normalized
                                \o SubSeq(fraction_and_tz, Len(fraction) + 1,
                                          Len(fraction_and_tz))]
            ELSE [err |-> NoErr,
                  v |-> SubSeq(iso_time, 1, Min(26, Len(iso_time)))
                        \o <<"0", "0", "0", "0", "0", "0">>
                        \o SubSeq(iso_time, 27, Len(iso_time))]

\* a datetime: its fields, whether it has a tzinfo, its utcoffset in minutes
DateTime(year, month, day, hour, minute, second, microsecond, aware, offset) ==
    [year |-> year, month |-> month, day |-> day, hour |-> hour,
     minute |-> minute, second |-> second, microsecond |-> microsecond,
     aware |-> aware, offset |-> offset]

DaysInMonth(y, m) ==
    IF m = 2
    THEN (IF (y % 4 = 0 /\ y % 100 # 0) \/ y % 400 = 0 THEN 29 ELSE 28)
    ELSE IF m \in {4, 6, 9, 11} THEN 30 ELSE 31

\* the UTC offset at the end of a timestamp: absent, Z, or +HH:MM / -HH:MM
ParseOffset(tz) ==
    IF tz = <<>> THEN [ok |-> TRUE, aware |-> FALSE, offset |-> 0]
    ELSE IF tz = <<"Z">> THEN [ok |-> TRUE, aware |-> TRUE, offset |-> 0]
    ELSE IF /\ Len(tz) = 6
            /\ tz[1] \in {"+", "-"}
            /\ tz[4] = ":"
            /\ AllDigits(SubSeq(tz, 2, 3) \o SubSeq(tz, 5, 6))
            /\ ToInt(SubSeq(tz, 2, 3)) < 24
            /\ ToInt(SubSeq(tz, 5, 6)) < 60
    THEN [ok |-> TRUE, aware |-> TRUE,
          offset |-> (IF tz[1] = "-" THEN 0 - 1 ELSE 1)
                     * (60 * ToInt(SubSeq(tz, 2, 3)) + ToInt(SubSeq(tz, 5, 6)))]
    ELSE [ok |-> FALSE, aware |-> FALSE, offset |-> 0]

\* the digits at the start of a text
RECURSIVE LeadingDigits(_)
LeadingDigits(text) ==
    IF text = <<>> \/ ~IsDigit(text[1]) THEN <<>>
    ELSE <<text[1]>> \o LeadingDigits(Tail(text))

\* datetime.fromisoformat (Python 3.11) on the texts YYYY-MM-DD and
\* YYYY-MM-DD?HH:MM:SS[.f...][Z|+HH:MM|-HH:MM]; of a fraction the first six
\* digits count; any other text is a ValueError
fromisoformat(text) ==
    LET bad == [err |-> ValueError, dt |-> DateTime(1, 1, 1, 0, 0, 0, 0, FALSE, 0)]
        dateOk == /\ Len(text) >= 10
                  /\ text[5] = "-" /\ text[8] = "-"
                  /\ AllDigits(SubSeq(text, 1, 4) \o SubSeq(text, 6, 7)
                               \o SubSeq(text, 9, 10))
        y == ToInt(SubSeq(text, 1, 4))
        mo == ToInt(SubSeq(text, 6, 7))
        d == ToInt(SubSeq(text, 9, 10))
        timeOk == /\ Len(text) >= 19
                  /\ text[14] = ":" /\ text[17] = ":"
                  /\ AllDigits(SubSeq(text, 12, 13) \o SubSeq(text, 15, 16)
                               \o SubSeq(text, 18, 19))
        h == ToInt(SubSeq(text, 12, 13))
        mi == ToInt(SubSeq(text, 15, 16))
        sec == ToInt(SubSeq(text, 18, 19))
        rest == SubSeq(text, 20, Len(text))
        hasFrac == rest # <<>> /\ rest[1] = "."
        frac == IF hasFrac THEN LeadingDigits(Tail(rest)) ELSE <<>>
        tz == IF hasFrac THEN SubSeq(rest, Len(frac) + 2, Len(rest)) ELSE rest
        off == ParseOffset(tz)
    IN  IF ~dateOk THEN bad
        ELSE IF y < 1 \/ mo < 1 \/ mo > 12 \/ d < 1 \/ d > DaysInMonth(y, mo) THEN bad
        ELSE IF Len(text) = 10
        THEN [err |-> NoErr, dt |-> DateTime(y, mo, d, 0, 0, 0, 0, FALSE, 0)]
        ELSE IF ~timeOk \/ h > 23 \/ mi > 59 \/ sec > 59 THEN bad
        ELSE IF hasFrac /\ frac = <<>> THEN bad
        ELSE IF ~off.ok THEN bad
        ELSE [err |-> NoErr,
              dt |-> DateTime(y, mo, d, h, mi, sec,
                              ToInt(SubSeq(LJust(frac, 6, "0"), 1, 6)),
                              off.aware, off.offset)]

\* date + timedelta(days=n)
RECURSIVE ShiftDays(_, _)
ShiftDays(dt, n) ==
    IF n = 0 THEN dt
    ELSE IF n > 0
    THEN ShiftDays(IF dt.day < DaysInMonth(dt.year, dt.month)
                   THEN [dt EXCEPT !.day = @ + 1]
                   ELSE IF dt.month < 12
                   THEN [dt EXCEPT !.day = 1, !.month = @ + 1]
                   ELSE [dt EXCEPT !.day = 1, !.month = 1, !.year = @ + 1],
                   n - 1)
    ELSE ShiftDays(IF dt.day > 1
                   THEN [dt EXCEPT !.day = @ - 1]
                   ELSE IF dt.month > 1
                   THEN [dt EXCEPT !.day = DaysInMonth(dt.year, dt.month - 1),
                                   !.month = @ - 1]
                   ELSE [dt EXCEPT !.day = 31, !.month = 12, !.year = @ - 1],
                   n + 1)

\* dt + timedelta(hours=n)
AddHours(dt, n) ==
    LET total == dt.hour + n
    IN  ShiftDays([dt EXCEPT !.hour = total % 24], total \div 24)

\* dt.strftime("%Y-%m-%d %H:%M:%S")
Strftime(dt) ==
    ZFill(IntToStr(dt.year), 4) \o <<"-">> \o ZFill(IntToStr(dt.month), 2)
    \o <<"-">> \o ZFill(IntToStr(dt.day), 2) \o <<SP>>
    \o ZFill(IntToStr(dt.hour), 2) \o <<":">> \o ZFill(IntToStr(dt.minute), 2)
    \o <<":">> \o ZFill(IntToStr(dt.second), 2)

TimezoneWarning(expected, actual) ==
    [cls |-> "TimezoneWarning", expected |-> expected, actual |-> actual]

\* the values handle_timezone is checked against, line 80
HandleTimezoneValues == {"error", "warning", "ignore"}

DefaultMaxFractionLength == 9

\* iso_to_dict with the default keys and max_fraction_length
iso_to_dict(iso_time, expected_timezone, handle_timezone, allow_empty) ==
    LET out(err, ret, w) == [err |-> err, ret |-> ret, w |-> w]
        needs == \/ Len(iso_time) < 26
                 \/ iso_time[20] # "."
                 \/ (iso_time[27] # "+" /\ iso_time[27] # "Z")
        norm == IF needs
                THEN normalize_iso_time(iso_time, DefaultMaxFractionLength)
                ELSE [err |-> NoErr, v |-> iso_time]
        parsed == fromisoformat(norm.v)
        dt == parsed.dt
        actual_timezone ==
            IF dt.aware /\ dt.offset # 0 THEN (dt.offset * 60) \div 3600 ELSE 0
        mismatch == actual_timezone # expected_timezone
        adjusted == IF mismatch
                    THEN AddHours(dt, expected_timezone - actual_timezone)
                    ELSE dt
    IN  IF iso_time = <<>>
        THEN (IF ~allow_empty THEN out(EmptyValueError, <<>>, <<>>)
              ELSE out(NoErr, << <<"date_time_", VNone>>, <<"time_mcs_", VNone>> >>,
                       <<>>))
        ELSE IF handle_timezone \notin HandleTimezoneValues
        THEN out(InvalidParameterValueError, <<>>, <<>>)
        ELSE IF Len(iso_time) < 20 THEN out(InvalidFormatError, <<>>, <<>>)
        ELSE IF Len(iso_time) = 26 /\ iso_time[20] = "."
        THEN out(IndexError, <<>>, <<>>)
        ELSE IF norm.err = ValueError THEN out(InvalidFormatError, <<>>, <<>>)
        ELSE IF Failed(norm.err) THEN out(norm.err, <<>>, <<>>)
        ELSE IF Failed(parsed.err) THEN out(InvalidFormatError, <<>>, <<>>)
        ELSE IF mismatch /\ handle_timezone = "error"
        THEN out(TimezoneMismatchError, <<>>, <<>>)
        ELSE out(NoErr,
                 << <<"date_time_", VStr(Strftime(adjusted))>>,
                    <<"time_mcs_", VInt(adjusted.microsecond)>> >>,
                 IF mismatch /\ handle_timezone = "warning"
                 THEN <<TimezoneWarning(expected_timezone, actual_timezone)>>
                 ELSE <<>>)

\* the timestamps a caller passes: the empty text and
\*   2024-01-01T10:00:00.123456+03:00
\*   2024-01-01T10:00:00.5Z
\*   2024-01-01T10:00:00Z
\*   2024-01-01T10:00:00+03:00
\*   2024-01-31T23:30:00.123-03:00
\*   2024-01-01T10:00:00.000000+05:30
\*   2024-01-01
\*   2024-01-01T10:00:00.123456
\*   2024-02-30T10:00:00.5Z
TimeStamps ==
    {<<>>,
     <<"2", "0", "2", "4", "-", "0", "1", "-", "0", "1", "T", "1", "0", ":", "0", "0", ":", "0", "0", ".", "1", "2", "3", "4", "5", "6", "+", "0", "3", ":", "0", "0">>,
     <<"2", "0", "2", "4", "-", "0", "1", "-", "0", "1", "T", "1", "0", ":", "0", "0", ":", "0", "0", ".", "5", "Z">>,
     <<"2", "0", "2", "4", "-", "0", "1", "-", "0", "1", "T", "1", "0", ":", "0", "0", ":", "0", "0", "Z">>,
     <<"2", "0", "2", "4", "-", "0", "1", "-", "0", "1", "T", "1", "0", ":", "0", "0", ":", "0", "0", "+", "0", "3", ":", "0", "0">>,
     <<"2", "0", "2", "4", "-", "0", "1", "-", "3", "1", "T", "2", "3", ":", "3", "0", ":", "0", "0", ".", "1", "2", "3", "-", "0", "3", ":", "0", "0">>,
     <<"2", "0", "2", "4", "-", "0", "1", "-", "0", "1", "T", "1", "0", ":", "0", "0", ":", "0", "0", ".", "0", "0", "0", "0", "0", "0", "+", "0", "5", ":", "3", "0">>,
     <<"2", "0", "2", "4", "-", "0", "1", "-", "0", "1">>,
     <<"2", "0", "2", "4", "-", "0", "1", "-", "0", "1", "T", "1", "0", ":", "0", "0", ":", "0", "0", ".", "1", "2", "3", "4", "5", "6">>,
     <<"2", "0", "2", "4", "-", "0", "2", "-", "3", "0", "T", "1", "0", ":", "0", "0", ":", "0", "0", ".", "5", "Z">>}

InitTime ==
    /\ self = TSVConverter(FM_example, <<>>, 1, <<>>, <<>>)
    /\ warned = PostInit(1)
    /\ ConvIdle
    /\ RowIdle
    /\ OthersIdle

\* a call of iso_to_dict, to its return or its exception
IsoToDictCall(iso_time, expected_timezone, handle_timezone, allow_empty) ==
    /\ t_pc = "idle"
    /\ t_args' = [iso_time |-> iso_time, expected_timezone |-> expected_timezone,
                  handle_timezone |-> handle_timezone, allow_empty |-> allow_empty]
    /\ LET r == iso_to_dict(iso_time, expected_timezone, handle_timezone, allow_empty)
       IN  /\ t_err' = r.err
           /\ t_ret' = r.ret
           /\ t_warn' = r.w
           /\ t_pc' = IF Failed(r.err) THEN "raised" ELSE "returned"
    /\ UNCHANGED <<self, warned, conv_vars, row_vars, ext_vars, san_vars, qry_vars,
                   scr_vars>>

\* the caller has the outcome
IsoToDictDone ==
    /\ t_pc \in {"returned", "raised"}
    /\ t_pc' = "idle"
    /\ t_args' = [iso_time |-> <<>>, expected_timezone |-> 0,
                  handle_timezone |-> "error", allow_empty |-> FALSE]
    /\ t_ret' = <<>>
    /\ t_err' = NoErr
    /\ t_warn' = <<>>
    /\ UNCHANGED <<self, warned, conv_vars, row_vars, ext_vars, san_vars, qry_vars,
                   scr_vars>>

NextTime ==
    \/ \E ts \in TimeStamps, tz \in {0 - 3, 0, 3, 5},
          h \in {"error", "warning", "warn", "ignore"}, ae \in BOOLEAN :
              IsoToDictCall(ts, tz, h, ae)
    \/ IsoToDictDone

SpecTime == InitTime /\ [][NextTime]_vars

\* ------------------------------------------------------------------ claims

\* C1: a successful convert with num_processes = k, 1 <= k <= |records|,
\* returns the same data rows, in the same order, as convert with
\* num_processes = 1 on the same records and configuration
C1_SameRowsAsOneProcess ==
    (Returned /\ self.num_processes <= Len(data)) =>
        LET one == ProcessChunk(job, SplitData(data, 1)[1])
        IN  /\ ~Failed(one.err)
            /\ DataRows(output) = Lines(one.text)

\* C2: a successful convert returns one data row per input record, the i-th
\* data row being the row built from the i-th record
C2_OneRowPerRecord ==
    Returned =>
        /\ Len(DataRows(output)) = Len(data)
        /\ \A i \in 1..Len(data) :
              LET l == ProcessLine(job, data[i])
              IN  ~Failed(l.err) /\ DataRows(output)[i] \o <<NL>> = l.text

\* C3: when the processing of a record of some chunk fails, convert raises
\* the failure of one of the chunks (the first the pool received) and
\* returns no text, whatever the other chunks did and in whatever order the
\* workers finished
C3_FailureRaisesNoOutput ==
    (Ended /\ \E c \in 1..Len(chunks) : \E n \in 1..Len(chunks[c]) :
                  Failed(ProcessLine(job, chunks[c][n]).err)) =>
        /\ pc = "raised"
        /\ output = <<>>
        /\ \E n \in 1..Len(finished) :
              /\ Failed(tasks[finished[n]].err)
              /\ raised = tasks[finished[n]].err
              /\ \A m \in 1..(n - 1) : ~Failed(tasks[finished[m]].err)

C3_Witness ==
    /\ pc = "raised"
    /\ Len(finished) >= 2
    /\ ~Failed(tasks[finished[1]].err)
    /\ tasks[finished[1]].text # <<>>
    /\ finished[1] > finished[Len(finished)]
    /\ raised = tasks[finished[Len(finished)]].err

\* a record that lacks a not_null_fields key once it is extracted and decorated
LacksNotNull(row) ==
    LET pr == ProcessRow(job, row)
    IN  /\ ~Failed(pr.err)
        /\ \E i \in 1..Len(job.not_null_fields) : ~Has(pr.row, job.not_null_fields[i])

\* C4: if any input record, at any position, lacks a not_null_fields key,
\* convert raises MissingFieldError and produces no output
C4_MissingNotNullRaises ==
    (Ended /\ \E i \in 1..Len(data) : LacksNotNull(data[i])) =>
        /\ pc = "raised"
        /\ raised.cls = "MissingFieldError"
        /\ output = <<>>

\* C5: the table is the header line followed by the text blocks of the
\* chunks in chunk-index order: the block of chunk i starts where the
\* blocks of the chunks before it end
C5_BlocksInChunkOrder ==
    Returned =>
        LET h == Len(Join(header, TAB)) + 1
        IN  /\ Len(output) = h + SumLen(1, Len(tasks))
            /\ \A i \in 1..Len(tasks) :
                  SubSeq(output, h + SumLen(1, i - 1) + 1, h + SumLen(1, i))
                      = tasks[i].text

C5_Witness ==
    /\ Returned
    /\ \E a \in 1..Len(finished) : \E b \in 1..Len(finished) :
          /\ a < b
          /\ finished[a] > finished[b]
          /\ tasks[finished[a]].text # <<>>
          /\ tasks[finished[b]].text # <<>>
          /\ tasks[finished[a]].text # tasks[finished[b]].text

\* C6: every data row of a returned table has as many cells as the header
\* has column names
C6_RowsMatchHeader ==
    Returned =>
        \A i \in 1..Len(DataRows(output)) :
            Len(Cells(DataRows(output)[i])) = Len(Cells(Lines(output)[1]))

\* C7: the header has len(fields_mapping) + the sum over the additional
\* fields of len(output_fields) (constant) or len(output_mapping) (computed)
\* columns: the column names of fields_mapping in insertion order, then each
\* additional field's names in registration order; it is the first line of
\* the table
C7_HeaderColumns ==
    (pc # "idle") =>
        LET fm == self.fields_mapping
            afs == self.additional_fields
        IN  /\ Len(header) = Len(fm) + SumColumns(afs, Len(afs))
            /\ \A i \in 1..Len(fm) : header[i] = fm[i][2]
            /\ \A a \in 1..Len(afs) : \A n \in 1..ColumnsOf(afs[a]) :
                  header[Len(fm) + SumColumns(afs, a - 1) + n] = NamesOf(afs[a])[n]
            /\ Returned => Cells(Lines(output)[1]) = header

C7_Witness ==
    /\ Returned
    /\ self.fields_mapping = FM_scored
    /\ self.additional_fields = <<A_double, A_const>>
    /\ header = <<K_id, K_name, K_pts, K_score_x2, K_src>>

ExampleText ==
    <<"i", "d", TAB, "n", "a", "m", "e", NL,
      "1", TAB, "N", "U", "L", "L", NL,
      "2", TAB, "B", "o", "b", NL>>

\* C8: in every data row the cell of a fields_mapping key is the sanitized
\* value when the processed record has the key and the missing-value
\* placeholder when it has not (the key then not being required), cells in
\* fields_mapping order; records {id:1}, {id:2,name:Bob} under id, name give
\* the rows 1<TAB>NULL and 2<TAB>Bob
C8_PlaceholderForAbsent ==
    Returned =>
        /\ \A i \in 1..Len(DataRows(output)) :
              LET pr == ProcessRow(job, data[i])
                  cells == Cells(DataRows(output)[i])
                  fm == self.fields_mapping
              IN  /\ Len(cells) >= Len(fm)
                  /\ \A j \in 1..Len(fm) :
                        IF Has(pr.row, fm[j][1])
                        THEN cells[j] = SanitizeValue(self, Get(pr.row, fm[j][1])).s
                        ELSE /\ cells[j] = self.missing_value_placeholder
                             /\ ~InList(fm[j][1], self.not_null_fields)
        /\ (/\ data = <<R_1, R_2>>
            /\ self.fields_mapping = FM_example
            /\ self.additional_fields = <<>>
            /\ self.nested_key = <<>>) => output = ExampleText

C8_Witness ==
    /\ Returned
    /\ data = <<R_1, R_2>>
    /\ self.fields_mapping = FM_example
    /\ self.not_null_fields = <<K_id>>
    /\ self.num_processes = 2
    /\ output = ExampleText

\* the additional field the row processor evaluates next
NextField == self.additional_fields[r_idx + 1]

Applying == r_pc = "apply" /\ r_idx < Len(self.additional_fields)

SourceKeys(af) == {af.input_mapping[i][2] : i \in 1..Len(af.input_mapping)}

\* C9: a computed additional field applied to a record that lacks a source
\* key of its input_mapping raises MissingFieldError naming exactly the
\* missing source keys; the function is not called, the record not modified
C9_MissingInputRaises ==
    [][(/\ Applying
        /\ Callable(NextField.value)
        /\ SourceKeys(NextField) \ KeySet(r_row) # {}) =>
            /\ r_pc' = "failed"
            /\ r_err'.cls = "MissingFieldError"
            /\ r_err'.names = SourceKeys(NextField) \ KeySet(r_row)
            /\ r_calls' = r_calls
            /\ r_row' = r_row]_vars

C9_Witness ==
    /\ r_pc = "failed"
    /\ r_idx = 2
    /\ self.additional_fields = <<A_const, A_double>>
    /\ r_err = MissingFieldError({K_score})
    /\ r_calls = <<>>
    /\ r_row = Put(r_in, K_src, VStr(<<"x">>))

\* every additional field has exactly one form populated
WellFormed(af) ==
    IF Callable(af.value) THEN af.output_fields = <<>> ELSE af.output_mapping = <<>>

Evaluated == r_pc = "apply" /\ r_idx = Len(self.additional_fields)

\* some additional field has an output_mapping target the row lacks
TargetAbsent(row) ==
    \E a \in 1..Len(self.additional_fields) :
        \E n \in 1..Len(self.additional_fields[a].output_mapping) :
            ~Has(row, self.additional_fields[a].output_mapping[n][2])

\* C11: when, all additional fields evaluated, a target column of some
\* output_mapping is absent from the record, building the row raises
\* MissingFieldError and writes no line (no cell of the partial line stands
\* for a computed target that is absent); a fields_mapping key that is absent
\* and not required gets the placeholder, in the built row and in the cells
\* appended before the failure
C11_AbsentTargetRaises ==
    [][Evaluated =>
          LET fm == self.fields_mapping
          IN  /\ TargetAbsent(r_row) =>
                    /\ r_pc' = "failed"
                    /\ r_err'.cls = "MissingFieldError"
                    /\ r_ln'.text = <<>>
              /\ (r_pc' = "done") =>
                    /\ ~TargetAbsent(r_row)
                    /\ \A j \in 1..Len(fm) :
                          ~Has(r_row, fm[j][1]) =>
                              /\ ~InList(fm[j][1], self.not_null_fields)
                              /\ r_ln'.line[j] = self.missing_value_placeholder
              /\ (/\ r_pc' = "failed"
                  /\ \A j \in 1..Len(fm) :
                        InList(fm[j][1], self.not_null_fields) => Has(r_row, fm[j][1])) =>
                    /\ r_err'.names \cap KeySet(r_row) = {}
                    /\ \E a \in 1..Len(self.additional_fields) :
                          \E n \in 1..Len(self.additional_fields[a].output_mapping) :
                              r_err'.names = {self.additional_fields[a].output_mapping[n][2]}
                    /\ \A j \in 1..Len(fm) :
                          ~Has(r_row, fm[j][1]) =>
                              r_ln'.line[j] = self.missing_value_placeholder
      ]_vars

C11_Witness ==
    /\ r_pc = "failed"
    /\ r_in = R_score
    /\ self.additional_fields = <<A_partial>>
    /\ self.fields_mapping = FM_example
    /\ r_idx = 1
    /\ Has(r_row, K_score_x2)
    /\ ~Has(r_row, K_raw)
    /\ r_err = MissingFieldError({K_raw})
    /\ r_ln.line = <<DefaultPlaceholder, DefaultPlaceholder, <<"1", "0">> >>
    /\ r_ln.text = <<>>

\* the function of the next additional field, called on the row, returns
\* something that is not a mapping
ReturnsNonMapping ==
    /\ Applying
    /\ Callable(NextField.value)
    /\ SourceKeys(NextField) \subseteq KeySet(r_row)
    /\ LET res == Call(ValOf(NextField.value),
                       Update(MappedArgs(NextField.input_mapping, r_row),
                              NextField.static_args))
       IN  ~Failed(res.err) /\ ~IsDict(res.v)

\* C12: when the function of a computed additional field returns a value
\* that is not a mapping, the evaluation raises InvalidComputedResultError
\* (not MissingFieldError, not the nested-path error) and writes nothing to
\* the record
C12_NonMappingResultRaises ==
    [][ReturnsNonMapping =>
          /\ r_pc' = "failed"
          /\ r_err'.cls = "InvalidComputedResultError"
          /\ r_row' = r_row]_vars

\* the two forms of an additional field: a function with its mappings, a
\* constant with its output_fields
ComputedForm(af) == Callable(af.value)

ConstantForm(af) == af.output_fields # <<>>

ExactlyOneForm(af) == ComputedForm(af) # ConstantForm(af)

\* C13: an additional field with both forms or with neither is rejected with
\* ConfigurationError: with such a field in the configuration no conversion
\* runs and no header or row is produced
C13_MalformedSpecRejected ==
    (\E a \in 1..Len(self.additional_fields) :
        ~ExactlyOneForm(self.additional_fields[a])) =>
        /\ pc \in {"idle", "raised"}
        /\ header = <<>>
        /\ output = <<>>
        /\ (pc = "raised") => raised.cls = "ConfigurationError"

\* the level reached from the record after the first k keys of the path
RECURSIVE LevelAt(_, _, _)
LevelAt(row, path, k) ==
    IF k = 0 THEN VDict(row) ELSE Get(ValOf(LevelAt(row, path, k - 1)), path[k])

\* the first k keys of the path can be descended
RECURSIVE Resolves(_, _, _)
Resolves(row, path, k) ==
    \/ k = 0
    \/ /\ Resolves(row, path, k - 1)
       /\ IsDict(LevelAt(row, path, k - 1))
       /\ Has(ValOf(LevelAt(row, path, k - 1)), path[k])

\* C14: with a nested key path the extractor descends key by key; it raises
\* NestedKeyError (carrying the path and the level reached) at the first
\* level that is not a mapping or lacks the next key, and otherwise returns
\* the value at the end of the path; the record is not modified; with an
\* empty path the record itself is what is processed
C14_ExtractDescends ==
    (e_pc \in {"returned", "failed"}) =>
        LET path == self.nested_key
            n == Len(path)
        IN  /\ e_rec = e_in
            /\ (path = <<>>) => (e_pc = "returned" /\ e_out = VDict(e_in))
            /\ Resolves(e_in, path, n) =>
                  (e_pc = "returned" /\ e_out = LevelAt(e_in, path, n))
            /\ ~Resolves(e_in, path, n) =>
                  LET k == CHOOSE j \in 0..(n - 1) :
                              Resolves(e_in, path, j) /\ ~Resolves(e_in, path, j + 1)
                  IN  /\ e_pc = "failed"
                      /\ e_out = VNone
                      /\ e_err = NestedKeyError(path, LevelAt(e_in, path, k))

C14_Witness ==
    /\ e_pc = "failed"
    /\ self.nested_key = <<K_source, K_doc, K_id>>
    /\ e_in = R_leaf
    /\ e_err = NestedKeyError(<<K_source, K_doc, K_id>>, VStr(<<"x">>))

\* the text of a value: json.dumps of a dict or list, str of anything else
TextOf(value) ==
    IF TypeOf(value) \in {"dict", "list"} THEN JsonDumps(value) ELSE ToStr(value)

Count(text, c) == Cardinality({i \in 1..Len(text) : text[i] = c})

\* C15: the sanitized token of a value has no tab and no newline: it is the
\* value's text with each tab and each newline replaced by one space and
\* every other character in place ("\tA\nB" gives " A B"); a written line
\* has (number of cells - 1) tabs and one newline, its last character
C15_NoTabNoNewline ==
    /\ \A i \in 1..Len(s_line) :
          LET text == TextOf(s_vals[i])
              tok == s_line[i]
          IN  /\ Len(tok) = Len(text)
              /\ \A j \in 1..Len(tok) :
                    /\ tok[j] \notin {TAB, NL}
                    /\ tok[j] = IF text[j] \in {TAB, NL} THEN SP ELSE text[j]
              /\ (s_vals[i] = V_tabs) => tok = <<SP, "A", SP, "B">>
    /\ (s_pc = "written") =>
          /\ Len(s_line) = Len(s_vals)
          /\ Count(s_text, TAB) = Len(s_line) - 1
          /\ Count(s_text, NL) = 1
          /\ s_text[Len(s_text)] = NL

C15_Witness ==
    /\ s_pc = "written"
    /\ s_vals = <<V_tabs, VList(<<VStr(<<"x", NL>>), VInt(0 - 2), VNone>>)>>
    /\ s_text = <<SP, "A", SP, "B", TAB,
                  "[", "\"", "x", "\\", "n", "\"", ",", SP, "-", "2", ",", SP,
                  "n", "u", "l", "l", "]", NL>>

\* C16: sanitizing a dict or list whose serialized text is longer than
\* max_json_length emits exactly one JsonLengthWarning and the cell holds the
\* whole serialized text; a dict or list whose text is not longer, and any
\* other value, emits no warning; the call never raises
C16_OneWarningNoTruncation ==
    /\ Len(s_warn) = Len(s_line)
    /\ \A i \in 1..Len(s_line) :
          LET value == s_vals[i]
              nested == TypeOf(value) \in {"dict", "list"}
          IN  IF nested /\ Len(JsonDumps(value)) > self.max_json_length
              THEN /\ Len(s_warn[i]) = 1
                   /\ s_warn[i][1].cls = "JsonLengthWarning"
                   /\ s_line[i] = JsonDumps(value)
              ELSE s_warn[i] = <<>>

C16_Witness ==
    /\ s_pc = "written"
    /\ self.max_json_length = SmallMaxJsonLength
    /\ s_vals = <<VList(<<VInt(1)>>), VDict(<< <<K_name, VStr(<<"a", TAB, "b">>)>> >>)>>
    /\ s_warn[1] = <<>>
    /\ Len(s_warn[2]) = 1
    /\ s_line[2] = <<"{", "\"", "n", "a", "m", "e", "\"", ":", SP,
                     "\"", "a", "\\", "t", "b", "\"", "}">>

\* some record of some chunk of the conversion fails in its worker
SomeRecordFails ==
    \E c \in 1..Len(chunks) : \E n \in 1..Len(chunks[c]) :
        Failed(ProcessLine(job, chunks[c][n]).err)

\* C17: a converter whose num_processes exceeds the available cores has
\* emitted, from its construction on and so before any chunk is dispatched,
\* one ExcessiveProcessesWarning naming num_processes and the available
\* cores; its pool has num_processes workers and one task per chunk; the
\* conversion ends without failure unless a record fails
C17_ExcessiveProcessesWarned ==
    (self.num_processes > AvailableCores) =>
        /\ Len(warned) = 1
        /\ warned[1].cls = "ExcessiveProcessesWarning"
        /\ warned[1].num_processes = self.num_processes
        /\ warned[1].available_cores = AvailableCores
        /\ (pc = "running") =>
              /\ pool = self.num_processes
              /\ Len(tasks) = self.num_processes
        /\ (pc = "raised") => SomeRecordFails
        /\ (Ended /\ ~SomeRecordFails) => Returned

C17_Witness ==
    /\ Returned
    /\ self.num_processes = AvailableCores + 1
    /\ warned = <<ExcessiveProcessesWarning(AvailableCores + 1, AvailableCores)>>
    /\ Len(finished) = AvailableCores + 1
    /\ Len(DataRows(output)) >= 2

\* query["query"]["bool"]["must"]
MustOf(query) ==
    ValOf(Get(ValOf(Get(ValOf(Get(ValOf(query), "query")), "bool")), "must"))

\* a time bound is provided when it is set to a non-empty text (the test of
\* line 25, which the code's comment calls "provided")
Provided(t) == TypeOf(t) = "str" /\ ValOf(t) # ""

IsRangeOn(cond, m) ==
    /\ IsDict(cond)
    /\ KeySet(ValOf(cond)) = {"range"}
    /\ LET r == ValOf(Get(ValOf(cond), "range"))
       IN  /\ KeySet(r) = {m.range_field}
           /\ Get(ValOf(Get(r, m.range_field)), "gte") = m.start_time
           /\ Get(ValOf(Get(r, m.range_field)), "lt") = m.end_time

IsMatchAll(cond) == IsDict(cond) /\ Has(ValOf(cond), "match_all")

RECURSIVE TotalLen(_)
TotalLen(batches) ==
    IF batches = <<>> THEN 0 ELSE Len(batches[1]) + TotalLen(Tail(batches))

\* the number of responses before the first one without hits
NonEmptyPrefix ==
    IF \E i \in 1..Len(x_responses) : x_responses[i].hits = <<>>
    THEN (CHOOSE i \in 1..Len(x_responses) :
              /\ x_responses[i].hits = <<>>
              /\ \A j \in 1..(i - 1) : x_responses[j].hits # <<>>) - 1
    ELSE Len(x_responses)

\* C19: extract_data yields the batch of the search response and then the
\* batch of each scroll response, in the order returned; every scroll request
\* carries the scroll id of the response before it; no empty batch is
\* yielded, the first empty batch ends the generator, and the records
\* yielded are those of the batches returned before it
C19_YieldsBatchesInOrder ==
    /\ Len(x_yielded) = NonEmptyPrefix
    /\ \A i \in 1..Len(x_yielded) :
          x_yielded[i] = x_responses[i].hits /\ x_yielded[i] # <<>>
    /\ \A i \in 1..Len(x_requests) : x_requests[i] = x_responses[i].scroll_id
    /\ Len(x_requests) \in {Len(x_yielded) - 1, Len(x_yielded)}
    /\ \A i \in 1..(Len(x_responses) - 1) : x_responses[i].hits # <<>>
    /\ (x_pc = "finished") <=>
          (x_responses # <<>> /\ x_responses[Len(x_responses)].hits = <<>>)
    /\ TotalLen(x_yielded) =
          TotalLen([i \in 1..NonEmptyPrefix |-> x_responses[i].hits])

C19_Witness ==
    /\ x_pc = "finished"
    /\ x_responses = <<Response("s1", <<2, 3>>), Response("s2", <<1>>),
                       Response("s1", <<>>)>>
    /\ x_yielded = << <<2, 3>>, <<1>> >>
    /\ x_requests = <<"s1", "s2">>

\* the timestamp is a well-formed ISO-8601 timestamp that carries an offset
HasOffset(iso_time) ==
    LET p == fromisoformat(iso_time)
    IN  ~Failed(p.err) /\ p.dt.aware /\ Len(iso_time) > 10

\* the timestamp's offset is not the expected one
OffsetDiffers(iso_time, expected_timezone) ==
    fromisoformat(iso_time).dt.offset # 60 * expected_timezone

\* the datetime/microseconds mapping
IsTimeMapping(ret) ==
    /\ Len(ret) = 2
    /\ ret[1][1] = "date_time_" /\ TypeOf(ret[1][2]) = "str"
    /\ ret[2][1] = "time_mcs_" /\ TypeOf(ret[2][2]) = "int"

\* C20: iso_to_dict accepts the policies error, warn and ignore.  When the
\* timestamp's offset differs from the expected offset the call fails with
\* a TimezoneMismatchError under error, emits one warning and returns the
\* mapping under warn, and returns the mapping silently under ignore; when
\* the offsets agree every policy returns the mapping with no error and no
\* warning.
C20_MismatchPolicies ==
    (/\ t_pc \in {"returned", "raised"}
     /\ HasOffset(t_args.iso_time)
     /\ t_args.handle_timezone \in {"error", "warn", "ignore"})
    => IF OffsetDiffers(t_args.iso_time, t_args.expected_timezone)
       THEN CASE t_args.handle_timezone = "error" ->
                     t_pc = "raised" /\ t_err = TimezoneMismatchError
              [] t_args.handle_timezone = "warn" ->
                     /\ t_pc = "returned"
                     /\ Len(t_warn) = 1
                     /\ IsTimeMapping(t_ret)
              [] OTHER ->
                     t_pc = "returned" /\ t_warn = <<>> /\ IsTimeMapping(t_ret)
       ELSE t_pc = "returned" /\ t_warn = <<>> /\ IsTimeMapping(t_ret)

\* C21: a JsonLengthWarning names the length of the serialized value as the
\* length that exceeds and max_json_length as the maximum
C21_WarningNamesActualAndMax ==
    \A i \in 1..Len(s_warn) : \A n \in 1..Len(s_warn[i]) :
        /\ s_warn[i][n].length = Len(JsonDumps(s_vals[i]))
        /\ s_warn[i][n].max_length = self.max_json_length

\* the number of function calls made once the first j additional fields
\* have been evaluated
CallIndex(j) ==
    Cardinality({i \in 1..j : Callable(self.additional_fields[i].value)})

\* the <<column, value>> writes of the j-th additional field, in the order
\* made: of a constant, its value to each output field; of a function, each
\* item of the mapping its logged call returns, to the mapped column
WrittenBy(j) ==
    LET af == self.additional_fields[j]
    IN  IF Callable(af.value)
        THEN LET call == r_calls[CallIndex(j)]
                 res == ValOf(Call(call.f, call.args).v)
             IN  [n \in 1..Len(res) |->
                     <<GetOr(af.output_mapping, res[n][1], res[n][1]), res[n][2]>>]
        ELSE [n \in 1..Len(af.output_fields) |-> <<af.output_fields[n], af.value>>]

Writes(j, c) == \E n \in 1..Len(WrittenBy(j)) : WrittenBy(j)[n][1] = c

\* the value the j-th additional field wrote last to column c
ValueWritten(j, c) ==
    LET w == WrittenBy(j)
        n == CHOOSE i \in 1..Len(w) :
                 w[i][1] = c /\ \A m \in (i + 1)..Len(w) : w[m][1] # c
    IN  w[n][2]

\* the last of the first j additional fields that wrote column c (0: none)
LastWriter(j, c) ==
    IF \E i \in 1..j : Writes(i, c)
    THEN CHOOSE i \in 1..j : Writes(i, c) /\ \A m \in (i + 1)..j : ~Writes(m, c)
    ELSE 0

\* the record keys of the cells the additional fields add to a line
RECURSIVE CellKeys(_)
CellKeys(additional_fields) ==
    IF additional_fields = <<>> THEN <<>>
    ELSE additional_fields[1].output_fields
         \o Values(additional_fields[1].output_mapping)
         \o CellKeys(Tail(additional_fields))

\* C22: additional fields are evaluated in registration order.  Once a row
\* is built, a function's argument whose source column an earlier additional
\* field wrote has the value the last such field wrote; a column written by
\* several additional fields holds the value the last of them wrote; every
\* cell the additional fields emit for a written column carries that value.
C22_RegistrationOrderLastWriteWins ==
    r_pc = "done" =>
        LET afs == self.additional_fields
            nfm == Len(self.fields_mapping)
            keys == CellKeys(afs)
        IN  /\ Len(r_calls) = CallIndex(Len(afs))
            /\ \A j \in 1..Len(afs) :
                  Callable(afs[j].value) =>
                      \A n \in 1..Len(afs[j].input_mapping) :
                          LET arg == afs[j].input_mapping[n][1]
                              src == afs[j].input_mapping[n][2]
                              w == LastWriter(j - 1, src)
                          IN  (w > 0 /\ ~Has(afs[j].static_args, arg)) =>
                                  Get(r_calls[CallIndex(j)].args, arg)
                                      = ValueWritten(w, src)
            /\ \A j \in 1..Len(afs) : \A n \in 1..Len(WrittenBy(j)) :
                  LET c == WrittenBy(j)[n][1]
                  IN  /\ Has(r_row, c)
                      /\ Get(r_row, c) = ValueWritten(LastWriter(Len(afs), c), c)
            /\ Len(r_ln.line) = nfm + Len(keys)
            /\ \A p \in 1..Len(keys) :
                  LastWriter(Len(afs), keys[p]) > 0 =>
                      r_ln.line[nfm + p]
                          = SanitizeValue(self,
                                ValueWritten(LastWriter(Len(afs), keys[p]),
                                             keys[p])).s

\* {score: 5} with double (score -> score_x2) and then double again
\* (score_x2 -> score_x2): the second call reads 10, the record holds 20 and
\* both cells of column score_x2 carry 20
C22_Witness ==
    /\ r_pc = "done"
    /\ self.additional_fields = <<A_double, A_redouble>>
    /\ self.fields_mapping = FM_example
    /\ r_in = R_score
    /\ Len(r_calls) = 2
    /\ Get(r_calls[2].args, K_x) = VInt(10)
    /\ Get(r_row, K_score_x2) = VInt(20)
    /\ r_ln.line = <<DefaultPlaceholder, DefaultPlaceholder, <<"2", "0">>, <<"2", "0">>>>

\* the chunks joined in index order
RECURSIVE Flatten(_)
Flatten(cs) == IF cs = <<>> THEN <<>> ELSE cs[1] \o Flatten(Tail(cs))

\* C23: _split_data returns exactly num_chunks chunks that partition the
\* input: each chunk is a contiguous slice, chunk i ending where chunk i + 1
\* begins, and the chunks joined in index order are the input list
C23_ChunksPartitionInput ==
    pc \in {"running", "done", "raised"} =>
        /\ Len(chunks) = job.num_processes
        /\ Flatten(chunks) = data

\* C24: convert does not return a table before every dispatched chunk task
\* has completed, and under fair scheduling of the caller and the workers
\* every convert call eventually returns the table or raises
C24_BlocksUntilAllTasksEnd ==
    /\ [](pc \in {"done", "raised"} =>
             /\ Len(tasks) = job.num_processes
             /\ \A i \in 1..Len(tasks) : tasks[i].done)
    /\ (pc = "header" ~> pc \in {"done", "raised"})

\* two workers, both tasks completed, the second before the first, and the
\* table returned
C24_Witness ==
    /\ pc = "done"
    /\ Len(tasks) = 2
    /\ finished = <<2, 1>>
    /\ output # <<>>

\* the text a convert call on the converter self_ and the records d returns
\* when no chunk fails
TableOf(self_, d) ==
    LET cs == SplitData(d, self_.num_processes)
    IN  Join(MakeHeader(self_), TAB) \o <<NL>>
        \o Flatten([i \in 1..Len(cs) |-> ProcessChunk(self_, cs[i]).text])

\* C25: from the start of a convert call until the caller has its result or
\* its exception, no step changes the caller's records or the converter
\* (fields_mapping, not_null_fields, additional_fields and the rest of its
\* configuration); the text returned is the table of the converter and the
\* records alone, so a second convert on them returns the same text
C25_CallerStateUnchanged ==
    /\ [][pc # "idle" => /\ self' = self
                         /\ (data' = data \/ pc' = "idle")]_vars
    /\ [](pc = "done" => output = TableOf(self, data))

\* a returned call whose worker decorated a record with score_x2 = 10: the
\* caller's record is as passed
C25_Witness ==
    /\ pc = "done"
    /\ self.additional_fields = <<A_double>>
    /\ data = <<R_scored>>
    /\ Get(ProcessRow(job, data[1]).row, K_score_x2) = VInt(10)
    /\ ~Has(data[1], K_score_x2)
    /\ output = TableOf(self, data)

\* C26: the header of a convert call and all of its rows are derived from
\* the same list of additional fields, also when another thread calls
\* add_additional_fields while the call is in progress
C26_OneSnapshot ==
    pc \in {"running", "done", "raised"} =>
        header = MakeHeader(job)

\* C27: when len(data) <= num_processes the chunk size is 1, chunk i holds
\* the i-th record alone for i <= len(data) and the other chunks are empty;
\* an empty chunk contributes no line; a successful convert returns the
\* header followed by one row per record in input order (the header alone
\* for empty data)
C27_FewRecordsOnePerChunk ==
    (pc \in {"running", "done", "raised"} /\ Len(data) <= job.num_processes) =>
        /\ Max(1, Len(data) \div job.num_processes) = 1
        /\ Len(chunks) = job.num_processes
        /\ \A i \in 1..Len(chunks) :
              /\ chunks[i] = IF i <= Len(data) THEN <<data[i]>> ELSE <<>>
              /\ (tasks[i].done /\ chunks[i] = <<>>) =>
                     tasks[i].text = <<>> /\ ~Failed(tasks[i].err)
        /\ pc = "done" =>
              /\ Lines(output)[1] = Join(header, TAB)
              /\ Len(DataRows(output)) = Len(data)
              /\ \A i \in 1..Len(data) :
                    DataRows(output)[i] \o <<NL>> = ProcessLine(job, data[i]).text
              /\ data = <<>> => output = Join(header, TAB) \o <<NL>>

\* one record and two processes: the second chunk is empty and the table is
\* the header and the record's row
C27_Witness ==
    /\ pc = "done"
    /\ job.num_processes = 2
    /\ data = <<R_2>>
    /\ chunks = <<<<R_2>>, <<>>>>
    /\ tasks[2].text = <<>>
    /\ self.fields_mapping = FM_example
    /\ self.additional_fields = <<>>
    /\ output = <<"i", "d", TAB, "n", "a", "m", "e", NL, "2", TAB, "B", "o", "b", NL>>

====
